---- MODULE Spec2Model ----
(***************************************************************************)
(* A model of the exam service of fuzailpalnak/ilmiya.                     *)
(*                                                                         *)
(* The relational store is one record of five tables (sets of rows).  The  *)
(* source names the same logical tables differently in different files     *)
(* (exams / exam, exam_descriptions / details, sections.details_id /       *)
(* sections.exam_description_id); the model keeps one table per entity.    *)
(* The table definitions (primary keys, foreign keys, ON DELETE CASCADE)   *)
(* live in the migrations directory, which is not part of the sources, so  *)
(* they are modelled from the data-model section of the specification.     *)
(*                                                                         *)
(* Strings are TLA+ strings, "" is the empty string; Option<String> and    *)
(* Option<bool> hold NullStr when absent; a NULL integer column of a join  *)
(* row is NullId.                                                          *)
(*                                                                         *)
(* A request arrives (request), its handler runs from start to end as one  *)
(* action (db, resp, log), and the reply leaves; pre is the store as the   *)
(* handler found it.  A handler's statements can fail: the action chooses  *)
(* the statement that does.                                                *)
(*                                                                         *)
(* Spec        create, read and delete of exams (database/queries)         *)
(* SpecEdit    create and the edit endpoint (routes/edit.rs, models.rs)    *)
(* SpecRegroup the regrouping of join rows (utils/parse.rs, routes/fetch.rs)*)
(* SpecLLM     the option-generation endpoints (routes/gen_options.rs,     *)
(*             routes/mcq.rs, utils/parse.rs)                              *)
(* SpecRoutes  the routed handlers (routes/create.rs, routes/fetch.rs,     *)
(*             routes/delete.rs, errors.rs) and delete_related_entities    *)
(* SpecLLMCall the call to the text-generation API (services/llm.rs)       *)
(* SpecKv      the key-value backend (routes/exam.rs)                      *)
(* SpecConcurrent  two requests in flight, interleaved statement by        *)
(*             statement (create, delete, read, edit)                      *)
(***************************************************************************)
EXTENDS Integers, Sequences, FiniteSets, TLC

VARIABLES db, request, resp, log, pre

vars == <<db, request, resp, log, pre>>

\* ------------------------------------------------------------------ bounds

MaxExamId == 2
MaxSectionId == 2
MaxQuestionId == 2
MaxOptionId == 2

ExamIds == 1..MaxExamId
DescriptionIds == 1..MaxExamId
SectionIds == 1..MaxSectionId
QuestionIds == 1..MaxQuestionId
OptionIds == 1..MaxOptionId

\* ------------------------------------------------------------------ values

NullStr == "NULL"
NullId == -1

\* Option<T>::unwrap_or_default for String and bool.
UnwrapOrDefaultStr(s) == IF s = NullStr THEN "" ELSE s
UnwrapOrDefaultBool(b) == IF b = NullStr THEN "false" ELSE b

RECURSIVE SeqToSet(_)
SeqToSet(s) == IF s = <<>> THEN {} ELSE {Head(s)} \cup SeqToSet(Tail(s))

RECURSIVE Flatten(_)
Flatten(ss) == IF ss = <<>> THEN <<>> ELSE Head(ss) \o Flatten(Tail(ss))

\* ------------------------------------------------------------------ store

EmptyDb ==
    [exams |-> {}, descriptions |-> {}, sections |-> {}, questions |-> {},
     options |-> {}]

Ids(rows) == {r.id : r \in rows}

\* Foreign keys of the schema: every child row references a stored parent.
ForeignKeysHold(d) ==
    /\ \A x \in d.descriptions : x.exam_id \in Ids(d.exams)
    /\ \A s \in d.sections : s.details_id \in Ids(d.descriptions)
    /\ \A q \in d.questions : q.section_id \in Ids(d.sections)
    /\ \A o \in d.options : o.question_id \in Ids(d.questions)

\* Primary keys of the schema: one row per id in every table.
PrimaryKeysHold(d) ==
    /\ \A a, b \in d.exams : a.id = b.id => a = b
    /\ \A a, b \in d.descriptions : a.id = b.id => a = b
    /\ \A a, b \in d.sections : a.id = b.id => a = b
    /\ \A a, b \in d.questions : a.id = b.id => a = b
    /\ \A a, b \in d.options : a.id = b.id => a = b

\* ON DELETE CASCADE: the rows left once every row whose parent is gone has
\* been removed, level by level.
Cascade(d) ==
    LET ds == {x \in d.descriptions : x.exam_id \in Ids(d.exams)}
        ss == {s \in d.sections : s.details_id \in Ids(ds)}
        qs == {q \in d.questions : q.section_id \in Ids(ss)}
        os == {o \in d.options : o.question_id \in Ids(qs)}
    IN [exams |-> d.exams, descriptions |-> ds, sections |-> ss,
        questions |-> qs, options |-> os]

\* --------------------------------------------------------------- requests

\* The values a request carries in its fields: variant "a" supplies every
\* optional field, variant "b" leaves every optional field out.
VTitle(v) == v
VText(v) == v
VDescription(v) == IF v = "a" THEN "da" ELSE NullStr
VMarks(v) == IF v = "a" THEN 1 ELSE 2
VIsCorrect(v) == IF v = "a" THEN "true" ELSE NullStr

MaxSections == 1
MaxQuestions == 1
MaxOptions == 2

\* The ascending sequences of at most n elements of a set of integers.
RECURSIVE AscSeqs(_, _)
AscSeqs(S, n) ==
    IF n = 0 \/ S = {} THEN {<<>>}
    ELSE {<<>>} \cup
         UNION {{<<x>> \o t : t \in AscSeqs({y \in S : y > x}, n - 1)} : x \in S}

OptionRequest(o, q, v) ==
    [id |-> o, question_id |-> q, text |-> VText(v), is_correct |-> VIsCorrect(v)]

\* The option lists of one question: every option names the same question_id,
\* which need not be the id of the question the list is nested in.
OptionLists(v) ==
    {<<>>} \cup
    {[i \in 1..Len(ids) |-> OptionRequest(ids[i], q, v)] :
        ids \in AscSeqs(OptionIds, MaxOptions) \ {<<>>}, q \in QuestionIds}

QuestionRequest(q, s, v, opts) ==
    [id |-> q, section_id |-> s, text |-> VText(v),
     description |-> VDescription(v), marks |-> VMarks(v), options |-> opts]

\* The question lists of one section (at most MaxQuestions questions, ids
\* ascending); a question's section_id need not be the enclosing section's id.
RECURSIVE QuestionLists(_, _, _)
QuestionLists(v, ids, n) ==
    IF n = 0 \/ ids = {} THEN {<<>>}
    ELSE {<<>>} \cup
         UNION {{<<QuestionRequest(q, s, v, opts)>> \o t :
                    t \in QuestionLists(v, {y \in ids : y > q}, n - 1),
                    s \in SectionIds, opts \in OptionLists(v)} : q \in ids}

SectionRequest(s, d, v, qs) ==
    [id |-> s, details_id |-> d, title |-> VTitle(v), questions |-> qs]

RECURSIVE SectionLists(_, _, _, _)
SectionLists(v, d, ids, n) ==
    IF n = 0 \/ ids = {} THEN {<<>>}
    ELSE {<<>>} \cup
         UNION {{<<SectionRequest(s, d, v, qs)>> \o t :
                    t \in SectionLists(v, d, {y \in ids : y > s}, n - 1),
                    qs \in QuestionLists(v, QuestionIds, MaxQuestions)} : s \in ids}

ExamRequest(e, d, v, secs) ==
    [exam_id |-> [id |-> e],
     description |-> [id |-> d, exam_id |-> e, title |-> VTitle(v),
                      description |-> VDescription(v), duration |-> VMarks(v),
                      passing_score |-> VMarks(v)],
     sections |-> secs]

\* A tree with a row at every level, so that each statement of a create has
\* inserted something by the time a later one fails.
FullRequest(e, v) ==
    ExamRequest(e, e, v,
        <<SectionRequest(e, e, v,
            <<QuestionRequest(1, e, v,
                <<OptionRequest(1, 1, v), OptionRequest(2, 1, v)>>)>>)>>)

\* The requests of the model: every shape of tree with the optional fields
\* supplied and the description taking the exam's id as its own; the empty
\* and the full tree with the optional fields left out; and trees with no
\* sections whose description takes another id, which may be one an earlier
\* exam's description holds.
ExamRequests ==
    UNION {{ExamRequest(e, e, "a", secs) :
               secs \in SectionLists("a", e, SectionIds, MaxSections)} :
           e \in ExamIds}
    \cup UNION {{ExamRequest(e, e, "b", <<>>), FullRequest(e, "b")} :
                e \in ExamIds}
    \cup UNION {{ExamRequest(e, d, "a", <<>>) : d \in DescriptionIds \ {e}} :
                e \in ExamIds}

\* ----------------------------------------------------------------- create
\* database/queries/insert.rs.  A statement returns [ok, tx]: the
\* transaction's view of the store after it, or a failure.

StmtOk(tx) == [ok |-> TRUE, tx |-> tx]
StmtErr(tx) == [ok |-> FALSE, tx |-> tx]

\* The bulk insert with ON CONFLICT (id) DO UPDATE: a row whose id is stored
\* replaces the stored row.
RECURSIVE InsertOrReplace(_, _)
InsertOrReplace(stored, rows) ==
    IF rows = <<>> THEN stored
    ELSE InsertOrReplace({r \in stored : r.id # Head(rows).id} \cup {Head(rows)},
                         Tail(rows))

\* INSERT ... SELECT * FROM UNNEST(...) ON CONFLICT (id) DO NOTHING: the rows
\* are taken in order and a row whose id is already stored (or was inserted
\* by an earlier row of the same statement) is skipped.
RECURSIVE InsertOrIgnore(_, _)
InsertOrIgnore(stored, rows) ==
    IF rows = <<>> THEN stored
    ELSE IF Head(rows).id \in Ids(stored)
         THEN InsertOrIgnore(stored, Tail(rows))
         ELSE InsertOrIgnore(stored \cup {Head(rows)}, Tail(rows))

\* INSERT INTO exams (id) VALUES ($1): a stored id is a primary-key violation.
insert_exam_id(tx, req) ==
    IF req.exam_id.id \in Ids(tx.exams) THEN StmtErr(tx)
    ELSE StmtOk([tx EXCEPT !.exams = @ \cup {[id |-> req.exam_id.id]}])

\* INSERT INTO exam_descriptions (...) VALUES (...): the exam_id column takes
\* the request's exam id, not the description's own exam_id field.
insert_details(tx, req) ==
    LET row == [id |-> req.description.id, exam_id |-> req.exam_id.id,
                title |-> req.description.title,
                description |-> req.description.description,
                duration |-> req.description.duration,
                passing_score |-> req.description.passing_score]
    IN IF row.id \in Ids(tx.descriptions) \/ row.exam_id \notin Ids(tx.exams)
       THEN StmtErr(tx)
       ELSE StmtOk([tx EXCEPT !.descriptions = @ \cup {row}])

insert_sections(tx, section_ids, detail_ids, section_titles) ==
    LET rows == [i \in 1..Len(section_ids) |->
                    [id |-> section_ids[i], details_id |-> detail_ids[i],
                     title |-> section_titles[i]]]
        new == InsertOrIgnore(tx.sections, rows)
    IN IF \A r \in new \ tx.sections : r.details_id \in Ids(tx.descriptions)
       THEN StmtOk([tx EXCEPT !.sections = new])
       ELSE StmtErr(tx)

insert_questions(tx, question_ids, section_ids, texts, descs, marks) ==
    LET rows == [i \in 1..Len(question_ids) |->
                    [id |-> question_ids[i], section_id |-> section_ids[i],
                     text |-> texts[i], description |-> descs[i],
                     marks |-> marks[i]]]
        new == InsertOrIgnore(tx.questions, rows)
    IN IF \A r \in new \ tx.questions : r.section_id \in Ids(tx.sections)
       THEN StmtOk([tx EXCEPT !.questions = new])
       ELSE StmtErr(tx)

insert_options(tx, option_ids, question_ids, texts, correct_flags) ==
    LET rows == [i \in 1..Len(option_ids) |->
                    [id |-> option_ids[i], question_id |-> question_ids[i],
                     text |-> texts[i], is_correct |-> correct_flags[i]]]
        new == InsertOrIgnore(tx.options, rows)
    IN IF \A r \in new \ tx.options : r.question_id \in Ids(tx.questions)
       THEN StmtOk([tx EXCEPT !.options = new])
       ELSE StmtErr(tx)

\* The loops of insert_exam that flatten the tree into column arrays.
RequestQuestions(req) ==
    Flatten([i \in 1..Len(req.sections) |-> req.sections[i].questions])
RequestOptions(req) ==
    LET qs == RequestQuestions(req)
    IN Flatten([i \in 1..Len(qs) |-> qs[i].options])

Column(rows, f(_)) == [i \in 1..Len(rows) |-> f(rows[i])]

\* insert_exam with the options inserted before the questions.
InsertSteps_options_first ==
    <<"exam", "details", "sections", "options", "questions">>

\* The statements of insert_exam, in the order it issues them.
InsertSteps == <<"exam", "details", "sections", "questions", "options">>

InsertStep(step, tx, req) ==
    LET qs == RequestQuestions(req)
        os == RequestOptions(req)
        FId(r) == r.id
        FTitle(r) == r.title
        FDetail(r) == req.description.id
        FSection(r) == r.section_id
        FText(r) == r.text
        FDesc(r) == UnwrapOrDefaultStr(r.description)
        FMarks(r) == r.marks
        FQuestion(r) == r.question_id
        FCorrect(r) == UnwrapOrDefaultBool(r.is_correct)
    IN CASE step = "exam" -> insert_exam_id(tx, req)
         [] step = "details" -> insert_details(tx, req)
         [] step = "sections" ->
              insert_sections(tx, Column(req.sections, FId),
                              Column(req.sections, FDetail),
                              Column(req.sections, FTitle))
         [] step = "questions" ->
              insert_questions(tx, Column(qs, FId), Column(qs, FSection),
                               Column(qs, FText), Column(qs, FDesc),
                               Column(qs, FMarks))
         [] step = "options" ->
              insert_options(tx, Column(os, FId), Column(os, FQuestion),
                             Column(os, FText), Column(os, FCorrect))

\* Where a storage failure (a lost connection, a failed commit) may strike.
FailPoints ==
    {"none", "begin", "commit"} \cup SeqToSet(InsertSteps)

Result(ok, err, d, l) == [ok |-> ok, err |-> err, db |-> d, log |-> l]

\* Runs the statements left of a transaction on its view tx of the store d.
\* A failed statement returns early: the transaction is dropped, which rolls
\* it back, and the store stays d.
RECURSIVE RunInsert(_, _, _, _, _, _)
RunInsert(steps, d, tx, req, fail, l) ==
    IF steps = <<>> THEN
        IF fail = "commit"
        THEN Result(FALSE, "commit", d, l \o <<"COMMIT", "ROLLBACK">>)
        ELSE Result(TRUE, "", tx, l \o <<"COMMIT">>)
    ELSE LET step == Head(steps)
             r == InsertStep(step, tx, req)
         IN IF fail = step \/ ~r.ok
            THEN Result(FALSE, step, d, l \o <<step, "ROLLBACK">>)
            ELSE RunInsert(Tail(steps), d, r.tx, req, fail, l \o <<step>>)

\* insert_exam with every statement run on the pool instead of on the
\* transaction: what ran before a failure stays.
RECURSIVE RunInsertOnPool(_, _, _, _, _)
RunInsertOnPool(steps, d, req, fail, l) ==
    IF steps = <<>> THEN Result(TRUE, "", d, l)
    ELSE LET step == Head(steps)
             r == InsertStep(step, d, req)
         IN IF fail = step \/ ~r.ok THEN Result(FALSE, step, d, l \o <<step>>)
            ELSE RunInsertOnPool(Tail(steps), r.tx, req, fail, l \o <<step>>)

insert_exam_on_pool(d, req, fail) ==
    IF fail = "begin" THEN Result(FALSE, "begin", d, <<"BEGIN">>)
    ELSE RunInsertOnPool(InsertSteps, d, req, fail, <<"BEGIN">>)

insert_exam(d, req, fail) ==
    IF fail = "begin" THEN Result(FALSE, "begin", d, <<"BEGIN">>)
    ELSE RunInsert(InsertSteps, d, d, req, fail, <<"BEGIN">>)

\* ------------------------------------------------------------ delete exam
\* database/queries/delete.rs: DELETE FROM exams WHERE id = $1 in its own
\* transaction; the schema's cascading foreign keys remove the descendants.

DeleteFailPoints == {"none", "begin", "delete", "commit"}

\* delete_exam without the commit: the transaction is dropped, which rolls
\* it back.
delete_exam_no_commit(d, exam_id, fail) ==
    CASE fail = "begin" -> Result(FALSE, "begin", d, <<"BEGIN">>)
      [] fail = "delete" ->
           Result(FALSE, "delete", d, <<"BEGIN", "DELETE exams", "ROLLBACK">>)
      [] OTHER -> Result(TRUE, "", d, <<"BEGIN", "DELETE exams", "ROLLBACK">>)

\* delete_exam that takes zero affected rows for an error.
delete_exam_rows_affected(d, exam_id, fail) ==
    LET tx == Cascade([d EXCEPT !.exams = {x \in @ : x.id # exam_id}])
    IN CASE fail = "begin" -> Result(FALSE, "begin", d, <<"BEGIN">>)
         [] fail = "delete" ->
              Result(FALSE, "delete", d, <<"BEGIN", "DELETE exams", "ROLLBACK">>)
         [] exam_id \notin Ids(d.exams) ->
              Result(FALSE, "RowNotFound", d,
                     <<"BEGIN", "DELETE exams", "ROLLBACK">>)
         [] fail = "commit" ->
              Result(FALSE, "commit", d,
                     <<"BEGIN", "DELETE exams", "COMMIT", "ROLLBACK">>)
         [] OTHER -> Result(TRUE, "", tx, <<"BEGIN", "DELETE exams", "COMMIT">>)

delete_exam(d, exam_id, fail) ==
    LET tx == Cascade([d EXCEPT !.exams = {x \in @ : x.id # exam_id}])
    IN CASE fail = "begin" -> Result(FALSE, "begin", d, <<"BEGIN">>)
         [] fail = "delete" ->
              Result(FALSE, "delete", d, <<"BEGIN", "DELETE exams", "ROLLBACK">>)
         [] fail = "commit" ->
              Result(FALSE, "commit", d,
                     <<"BEGIN", "DELETE exams", "COMMIT", "ROLLBACK">>)
         [] OTHER -> Result(TRUE, "", tx, <<"BEGIN", "DELETE exams", "COMMIT">>)

\* ------------------------------------------------------------------- read
\* database/queries/read.rs and utils/parse.rs.

\* The rows of the join of fetch_sections_and_questions for one exam: inner
\* joins down to the sections, left joins to questions and options, so a
\* section without questions and a question without options each give one
\* row whose missing columns are NULL.
JoinRows(d, exam_id) ==
    LET secs == {s \in d.sections :
                    \E x \in d.descriptions :
                        /\ x.id = s.details_id
                        /\ x.exam_id = exam_id
                        /\ exam_id \in Ids(d.exams)}
        Row(s, q, o) ==
            [section_id |-> s.id, section_title |-> s.title,
             section_details_id |-> s.details_id,
             question_id |-> q.id, question_text |-> q.text,
             question_description |-> q.description,
             question_marks |-> q.marks,
             option_id |-> o.id, option_text |-> o.text,
             option_is_correct |-> o.is_correct]
        NoQ == [id |-> NullId, text |-> NullStr, description |-> NullStr,
                marks |-> NullId]
        NoO == [id |-> NullId, text |-> NullStr, is_correct |-> NullStr]
        QsOf(s) == {q \in d.questions : q.section_id = s.id}
        OsOf(q) == {o \in d.options : o.question_id = q.id}
    IN UNION {IF QsOf(s) = {} THEN {Row(s, NoQ, NoO)}
              ELSE UNION {IF OsOf(q) = {} THEN {Row(s, q, NoO)}
                          ELSE {Row(s, q, o) : o \in OsOf(q)} : q \in QsOf(s)}
              : s \in secs}

RowKeyLess(a, b) ==
    \/ a.section_id < b.section_id
    \/ a.section_id = b.section_id /\ a.question_id < b.question_id
    \/ /\ a.section_id = b.section_id
       /\ a.question_id = b.question_id
       /\ a.option_id < b.option_id

\* The query has no ORDER BY; the model hands the rows over by ascending ids.
RECURSIVE RowsInOrder(_)
RowsInOrder(S) ==
    IF S = {} THEN <<>>
    ELSE LET m == CHOOSE x \in S : \A y \in S \ {x} : RowKeyLess(x, y)
         IN <<m>> \o RowsInOrder(S \ {m})

\* schema::SectionRow declares question_id, question_text, question_marks,
\* option_id and option_text without Option: a NULL in one of these columns
\* cannot be decoded and fails the fetch.
SectionRowDecodes(r) ==
    /\ r.question_id # NullId
    /\ r.question_text # NullStr
    /\ r.question_marks # NullId
    /\ r.option_id # NullId
    /\ r.option_text # NullStr

fetch_sections_and_questions(d, exam_id) ==
    LET rows == RowsInOrder(JoinRows(d, exam_id))
    IN IF \A i \in 1..Len(rows) : SectionRowDecodes(rows[i])
       THEN [ok |-> TRUE, rows |-> rows]
       ELSE [ok |-> FALSE, rows |-> <<>>]

\* The index of the first element of s that satisfies P, 0 when none does.
FirstIndex(s, P(_)) ==
    IF \E i \in 1..Len(s) : P(s[i])
    THEN CHOOSE i \in 1..Len(s) : P(s[i]) /\ \A j \in 1..(i - 1) : ~P(s[j])
    ELSE 0

\* HashMap::entry(key).or_insert_with(value): the map is a sequence of
\* [key, value] entries (its iteration order is unspecified in the source).
EntryOrInsert(map, key, value) ==
    LET HasKey(e) == e.key = key
    IN IF FirstIndex(map, HasKey) = 0
       THEN Append(map, [key |-> key, value |-> value])
       ELSE map

\* The loop body of map_to_section_response without the search for an
\* existing question: every row pushes a new question.
MapRow_always_pushes(map0, row) ==
    LET section_model == [id |-> row.section_id,
                          details_id |-> row.section_details_id,
                          title |-> row.section_title]
        map == EntryOrInsert(map0, row.section_id,
                             [base |-> section_model, questions |-> <<>>])
        HasKey(e) == e.key = row.section_id
        si == FirstIndex(map, HasKey)
        question_model == [id |-> row.question_id,
                           section_id |-> row.section_id,
                           text |-> row.question_text,
                           description |-> row.question_description,
                           marks |-> row.question_marks]
        option == [base |-> [id |-> row.option_id,
                             question_id |-> question_model.id,
                             text |-> row.option_text,
                             is_correct |-> row.option_is_correct]]
    IN [map EXCEPT ![si].value.questions =
            Append(@, [base |-> question_model, options |-> <<option>>])]

\* One iteration of the loop of map_to_section_response.
MapRow(map0, row) ==
    LET section_model == [id |-> row.section_id,
                          details_id |-> row.section_details_id,
                          title |-> row.section_title]
        map == EntryOrInsert(map0, row.section_id,
                             [base |-> section_model, questions |-> <<>>])
        HasKey(e) == e.key = row.section_id
        si == FirstIndex(map, HasKey)
        section == map[si].value
        question_model == [id |-> row.question_id,
                           section_id |-> row.section_id,
                           text |-> row.question_text,
                           description |-> row.question_description,
                           marks |-> row.question_marks]
        IsQuestion(q) == q.base.id = question_model.id
        qi == FirstIndex(section.questions, IsQuestion)
        option == [base |-> [id |-> row.option_id,
                             question_id |-> question_model.id,
                             text |-> row.option_text,
                             is_correct |-> row.option_is_correct]]
        questions ==
            IF qi # 0
            THEN [section.questions EXCEPT ![qi].options = Append(@, option)]
            ELSE Append(section.questions,
                        [base |-> question_model, options |-> <<option>>])
    IN [map EXCEPT ![si].value.questions = questions]

RECURSIVE MapRows(_, _)
MapRows(map, rows) ==
    IF rows = <<>> THEN map ELSE MapRows(MapRow(map, Head(rows)), Tail(rows))

map_to_section_response(rows) == MapRows(<<>>, rows)

NoBody == [exam_id |-> [id |-> NullId], sections |-> <<>>]

ReadResult(ok, err, body) == [ok |-> ok, err |-> err, body |-> body]

\* fetch_one fails with RowNotFound when the query returns no row.
read_exam_data(d, exam_id) ==
    LET exams == {x \in d.exams : x.id = exam_id}
        descs == {x \in d.descriptions : x.exam_id = exam_id}
        fetched == fetch_sections_and_questions(d, exam_id)
        sections_map == map_to_section_response(fetched.rows)
    IN IF exams = {} THEN ReadResult(FALSE, "RowNotFound: exam id", NoBody)
       ELSE IF descs = {}
       THEN ReadResult(FALSE, "RowNotFound: exam description", NoBody)
       ELSE IF ~fetched.ok
       THEN ReadResult(FALSE, "ColumnDecode: sections and questions", NoBody)
       ELSE LET x == CHOOSE y \in descs : TRUE
            IN ReadResult(TRUE, "",
                 [exam_id |-> [id |-> exam_id],
                  description |->
                      [x EXCEPT !.description = UnwrapOrDefaultStr(@)],
                  sections |-> [i \in 1..Len(sections_map) |->
                                   sections_map[i].value]])

\* ------------------------------------------------------------------- edit
\* routes/edit.rs and models.rs: the edit handler works on the store with
\* one statement at a time, outside any transaction.

\* update_many() with one col_expr and one filter per entry: the statement
\* sets the column once per entry and ANDs the filters.  With one entry it
\* is UPDATE ... SET col = v WHERE id = i; with more, PostgreSQL rejects it
\* (multiple assignments to the same column) and no row changes.
\* update_section without the filter on the id: every row takes the title.
update_section_unfiltered(d, input) ==
    IF Len(input) > 1 THEN StmtErr(d)
    ELSE StmtOk([d EXCEPT !.sections =
            {[r EXCEPT !.title = input[1].title] : r \in @}])

update_section(d, input) ==
    IF Len(input) > 1 THEN StmtErr(d)
    ELSE StmtOk([d EXCEPT !.sections =
            {IF r.id = input[1].id THEN [r EXCEPT !.title = input[1].title]
             ELSE r : r \in @}])

\* update_question that sets the text alone.
update_question_text_only(d, input) ==
    IF Len(input) > 1 THEN StmtErr(d)
    ELSE StmtOk([d EXCEPT !.questions =
            {IF r.id = input[1].id THEN [r EXCEPT !.text = input[1].text]
             ELSE r : r \in @}])

update_question(d, input) ==
    IF Len(input) > 1 THEN StmtErr(d)
    ELSE StmtOk([d EXCEPT !.questions =
            {IF r.id = input[1].id
             THEN [r EXCEPT !.text = input[1].text,
                            !.description = input[1].description,
                            !.marks = input[1].marks]
             ELSE r : r \in @}])

update_option(d, input) ==
    IF Len(input) > 1 THEN StmtErr(d)
    ELSE StmtOk([d EXCEPT !.options =
            {IF r.id = input[1].id
             THEN [r EXCEPT !.text = input[1].text,
                            !.is_correct = input[1].is_correct]
             ELSE r : r \in @}])

\* fetch_ids_query: the exam row left-joined down to the options; a level
\* with no row gives NULL ids.
fetch_ids_query(d, exam_id) ==
    LET N == [id |-> NullId]
        Or(S) == IF S = {} THEN {N} ELSE S
        DsOf(e) == Or({x \in d.descriptions : x.exam_id = e.id})
        SsOf(x) == Or({s \in d.sections : s.details_id = x.id})
        QsOf(s) == Or({q \in d.questions : q.section_id = s.id})
        OsOf(q) == Or({o \in d.options : o.question_id = q.id})
    IN UNION {UNION {UNION {UNION {{<<s.id, q.id, o.id>> : o \in OsOf(q)}
                                   : q \in QsOf(s)}
                            : s \in SsOf(x)}
                     : x \in DsOf(e)}
              : e \in {y \in d.exams : y.id = exam_id}}

\* generate_final_response of edit.rs: unwrap_or(0) on every id.
OrZero(i) == IF i = NullId THEN 0 ELSE i
IdsFinalResponse(input) == {<<OrZero(t[1]), OrZero(t[2]), OrZero(t[3])>> : t \in input}

\* DeletionData::new
DeletionData(section_ids, question_ids, option_ids, map) ==
    [section_id_to_delete |-> SeqToSet(section_ids),
     question_id_to_delete |-> SeqToSet(question_ids),
     option_id_to_delete |-> SeqToSet(option_ids),
     section_question_option_map |-> map]

\* DeletionData::filter_deletions
filter_deletions(dd) ==
    LET hit == {t \in dd.section_question_option_map :
                   t[1] \in dd.section_id_to_delete}
    IN [dd EXCEPT !.question_id_to_delete = @ \cup {t[2] : t \in hit},
                  !.option_id_to_delete = @ \cup {t[3] : t \in hit}]

\* DELETE FROM <table> WHERE id IN (ids), with the schema's cascade.
DeleteSections(d, ids) == Cascade([d EXCEPT !.sections = {r \in @ : r.id \notin ids}])
DeleteQuestions(d, ids) == Cascade([d EXCEPT !.questions = {r \in @ : r.id \notin ids}])
DeleteOptions(d, ids) == Cascade([d EXCEPT !.options = {r \in @ : r.id \notin ids}])

\* The statements edit_exam issues for a request, in order: each update
\* whose list is not empty, then, when the deletion payload is not all
\* empty, the snapshot query and each delete whose expanded set is not empty.
Delete_is_all_empty(del) ==
    del.section_ids = <<>> /\ del.question_ids = <<>> /\ del.option_ids = <<>>

EditStep(step, d, body, dd) ==
    CASE step = "update_section" -> update_section(d, body.sections)
      [] step = "update_question" -> update_question(d, body.questions)
      [] step = "update_option" -> update_option(d, body.options)
      [] step = "fetch_ids" -> StmtOk(d)
      [] step = "delete_sections" ->
           StmtOk(DeleteSections(d, dd.section_id_to_delete))
      [] step = "delete_questions" ->
           StmtOk(DeleteQuestions(d, dd.question_id_to_delete))
      [] step = "delete_options" ->
           StmtOk(DeleteOptions(d, dd.option_id_to_delete))

EditFailPoints ==
    {"none", "update_section", "update_question", "update_option",
     "fetch_ids", "delete_sections", "delete_questions", "delete_options"}

\* RunEdit without the early return: a failed statement is remembered and
\* the statements after it are still issued.
RECURSIVE RunEdit_keeps_going(_, _, _, _, _, _)
RunEdit_keeps_going(steps, d, body, dd, fail, l) ==
    IF steps = <<>> THEN Result(TRUE, "", d, l)
    ELSE LET step == Head(steps)
             r == EditStep(step, d, body, dd)
             failed == fail = step \/ ~r.ok
             rest == RunEdit_keeps_going(Tail(steps),
                                         IF failed THEN d ELSE r.tx,
                                         body, dd, fail, l \o <<step>>)
         IN IF failed THEN Result(FALSE, step, rest.db, rest.log) ELSE rest

\* delete_query: the deletes of the expanded sets, each skipped when its
\* set is empty.  A failed statement returns early; what the earlier
\* statements did stays.
RECURSIVE RunEdit(_, _, _, _, _, _)
RunEdit(steps, d, body, dd, fail, l) ==
    IF steps = <<>> THEN Result(TRUE, "", d, l)
    ELSE LET step == Head(steps)
             skip == \/ step = "delete_sections" /\ dd.section_id_to_delete = {}
                     \/ step = "delete_questions" /\ dd.question_id_to_delete = {}
                     \/ step = "delete_options" /\ dd.option_id_to_delete = {}
             r == EditStep(step, d, body, dd)
         IN IF skip THEN RunEdit(Tail(steps), d, body, dd, fail, l)
            ELSE IF fail = step \/ ~r.ok
            THEN Result(FALSE, step, d, l \o <<step>>)
            ELSE RunEdit(Tail(steps), r.tx, body, dd, fail, l \o <<step>>)

\* delete_query without its first block: the sections are never deleted.
delete_query_no_sections(d, dd0, body, fail, l) ==
    RunEdit(<<"delete_questions", "delete_options">>,
            d, body, filter_deletions(dd0), fail, l)

delete_query(d, dd0, body, fail, l) ==
    RunEdit(<<"delete_sections", "delete_questions", "delete_options">>,
            d, body, filter_deletions(dd0), fail, l)

\* delete of edit.rs: the snapshot for the request's exam, then delete_query.
edit_delete(d, body, fail, l) ==
    IF fail = "fetch_ids" THEN Result(FALSE, "fetch_ids", d, l \o <<"fetch_ids">>)
    ELSE delete_query(d,
            DeletionData(body.delete.section_ids, body.delete.question_ids,
                         body.delete.option_ids,
                         IdsFinalResponse(fetch_ids_query(d, body.exam_id))),
            body, fail, l \o <<"fetch_ids">>)

\* edit_exam with the deletion step moved ahead of the updates.
edit_exam_deletes_first(d, body, fail) ==
    LET updates ==
            (IF body.sections # <<>> THEN <<"update_section">> ELSE <<>>)
            \o (IF body.questions # <<>> THEN <<"update_question">> ELSE <<>>)
            \o (IF body.options # <<>> THEN <<"update_option">> ELSE <<>>)
        del == IF Delete_is_all_empty(body.delete) THEN Result(TRUE, "", d, <<>>)
               ELSE edit_delete(d, body, fail, <<>>)
    IN IF ~del.ok THEN del
       ELSE RunEdit(updates, del.db, body,
                    filter_deletions(DeletionData(<<>>, <<>>, <<>>, {})),
                    fail, del.log)

\* edit_exam without the is_all_empty test: the deletion step always runs.
edit_exam_always_deletes(d, body, fail) ==
    LET updates ==
            (IF body.sections # <<>> THEN <<"update_section">> ELSE <<>>)
            \o (IF body.questions # <<>> THEN <<"update_question">> ELSE <<>>)
            \o (IF body.options # <<>> THEN <<"update_option">> ELSE <<>>)
        u == RunEdit(updates, d, body,
                     filter_deletions(DeletionData(<<>>, <<>>, <<>>, {})), fail, <<>>)
    IN IF ~u.ok THEN u ELSE edit_delete(u.db, body, fail, u.log)

edit_exam(d, body, fail) ==
    LET updates ==
            (IF body.sections # <<>> THEN <<"update_section">> ELSE <<>>)
            \o (IF body.questions # <<>> THEN <<"update_question">> ELSE <<>>)
            \o (IF body.options # <<>> THEN <<"update_option">> ELSE <<>>)
        u == RunEdit(updates, d, body, filter_deletions(DeletionData(<<>>, <<>>, <<>>, {})), fail, <<>>)
    IN IF ~u.ok THEN u
       ELSE IF Delete_is_all_empty(body.delete) THEN u
       ELSE edit_delete(u.db, body, fail, u.log)

\* ---------------------------------------------------------- edit requests
\* The bodies of the edit endpoint.  An entry of an update list carries
\* the row's id and its new field values; the deletion payload carries three
\* lists of ids.
EditTitle(i) == IF i = 1 THEN "e" ELSE "f"
SectionEdit(i) == [id |-> i, title |-> EditTitle(i)]
QuestionEdit(i) ==
    [id |-> i, section_id |-> i, text |-> EditTitle(i),
     description |-> "de", marks |-> 3]
OptionEdit(i) ==
    [id |-> i, question_id |-> i, text |-> EditTitle(i), is_correct |-> "false"]

Delete(section_ids, question_ids, option_ids) ==
    [section_ids |-> section_ids, question_ids |-> question_ids,
     option_ids |-> option_ids]

EditExam(e, secs, qs, opts, del) ==
    [exam_id |-> e, sections |-> secs, questions |-> qs, options |-> opts,
     delete |-> del]

\* Update lists: none, one entry at each level, or a batch at one level.
Updates ==
    {<<ss, qs, os>> : ss \in {<<>>, <<SectionEdit(1)>>},
                      qs \in {<<>>, <<QuestionEdit(1)>>},
                      os \in {<<>>, <<OptionEdit(1)>>}}
    \cup {<<<<SectionEdit(1), SectionEdit(2)>>, <<>>, <<>>>>,
          <<<<>>, <<QuestionEdit(1), QuestionEdit(2)>>, <<>>>>,
          <<<<>>, <<>>, <<OptionEdit(1), OptionEdit(2)>>>>}

Deletes ==
    {Delete(ss, qs, os) : ss \in AscSeqs(SectionIds, MaxSectionId),
                          qs \in AscSeqs(QuestionIds, 1),
                          os \in AscSeqs(OptionIds, 1)}

\* Edits that only update, edits that only delete, and edits that update
\* every level and delete sections.
EditRequests ==
    {EditExam(e, u[1], u[2], u[3], Delete(<<>>, <<>>, <<>>)) :
        e \in ExamIds, u \in Updates}
    \cup {EditExam(e, <<>>, <<>>, <<>>, del) : e \in ExamIds, del \in Deletes}
    \cup {EditExam(e, <<SectionEdit(1)>>, <<QuestionEdit(1)>>, <<OptionEdit(1)>>,
                   Delete(ss, <<>>, <<>>)) :
            e \in ExamIds, ss \in AscSeqs(SectionIds, MaxSectionId) \ {<<>>}}

\* A tree whose rows name the parent they are nested in.
WellFormed(b) ==
    /\ b.description.id = b.exam_id.id
    /\ \A i \in 1..Len(b.sections) :
         LET s == b.sections[i]
         IN /\ s.details_id = b.description.id
            /\ \A j \in 1..Len(s.questions) :
                 LET q == s.questions[j]
                 IN /\ q.section_id = s.id
                    /\ \A k \in 1..Len(q.options) :
                         q.options[k].question_id = q.id

NoRequest == [kind |-> "none"]
NoResponse == [kind |-> "none"]

CreateRequests == {[kind |-> "create", body |-> b] : b \in ExamRequests}

Requests ==
    CreateRequests
    \cup {[kind |-> "delete_exam", exam_id |-> e] : e \in ExamIds}
    \cup {[kind |-> "read", exam_id |-> e] : e \in ExamIds}

\* The requests of the edit specification: well-formed trees to edit, and
\* the edits.
RequestsEdit ==
    {r \in CreateRequests :
        WellFormed(r.body) /\ r.body.description.title = VTitle("a")}
    \cup {[kind |-> "edit", body |-> b] : b \in EditRequests}

\* A response, with the fault that hit the handler's statements ("none"
\* when every statement the handler issued ran).
Response(kind, r, body, fail) ==
    [kind |-> kind, ok |-> r.ok, err |-> r.err, body |-> body,
     fault |-> IF ~r.ok /\ r.err = fail THEN fail ELSE "none"]

\* ---------------------------------------------------------------- actions
\* One request is served at a time: it arrives, its handler runs from
\* start to end, and the reply leaves.  pre holds the store as the handler
\* found it.

Init ==
    /\ db = EmptyDb
    /\ request = NoRequest
    /\ resp = NoResponse
    /\ log = <<>>
    /\ pre = EmptyDb

Receive(S) ==
    /\ request = NoRequest
    /\ \E r \in S : request' = r
    /\ pre' = db
    /\ UNCHANGED <<db, resp, log>>

ReceiveRequest == Receive(Requests)
ReceiveEdit == Receive(RequestsEdit)

Handling(kind) == request.kind = kind /\ resp = NoResponse

CreateExam ==
    /\ Handling("create")
    /\ \E fail \in FailPoints :
         LET r == insert_exam(db, request.body, fail)
         IN /\ db' = r.db
            /\ resp' = Response("create", r, NoBody, fail)
            /\ log' = r.log
    /\ UNCHANGED <<request, pre>>

DeleteExam ==
    /\ Handling("delete_exam")
    /\ \E fail \in DeleteFailPoints :
         LET r == delete_exam(db, request.exam_id, fail)
         IN /\ db' = r.db
            /\ resp' = Response("delete_exam", r, NoBody, fail)
            /\ log' = r.log
    /\ UNCHANGED <<request, pre>>

ReadExam ==
    /\ Handling("read")
    /\ LET r == read_exam_data(db, request.exam_id)
       IN resp' = Response("read", r, r.body, "none")
    /\ log' = <<"SELECT exam", "SELECT details", "SELECT sections">>
    /\ UNCHANGED <<db, request, pre>>

EditExamHandler ==
    /\ Handling("edit")
    /\ \E fail \in EditFailPoints :
         LET r == edit_exam(db, request.body, fail)
         IN /\ db' = r.db
            /\ resp' = Response("edit", r, NoBody, fail)
            /\ log' = r.log
    /\ UNCHANGED <<request, pre>>

Reply ==
    /\ resp # NoResponse
    /\ request' = NoRequest
    /\ resp' = NoResponse
    /\ log' = <<>>
    /\ pre' = db
    /\ UNCHANGED db

Next ==
    \/ ReceiveRequest
    \/ CreateExam
    \/ DeleteExam
    \/ ReadExam
    \/ Reply

Spec == Init /\ [][Next]_vars

\* The edit endpoint over the trees that creates have stored.
NextEdit ==
    \/ ReceiveEdit
    \/ CreateExam
    \/ EditExamHandler
    \/ Reply

SpecEdit == Init /\ [][NextEdit]_vars

\* ---------------------------------------------------------------- regroup
\* routes/fetch.rs, generate_final_response: the flat result of the other
\* read path.  HashMap::insert replaces the value of a key that is present.
MapInsert(map, key, value) ==
    LET HasKey(e) == e.key = key
        i == FirstIndex(map, HasKey)
    IN IF i = 0 THEN Append(map, [key |-> key, value |-> value])
       ELSE [map EXCEPT ![i].value = value]

RECURSIVE CollectResponses(_, _)
CollectResponses(acc, responses) ==
    IF responses = <<>> THEN acc
    ELSE LET r == Head(responses)
         IN CollectResponses(
              [sections_map |->
                   MapInsert(acc.sections_map, r.section_id,
                             [id |-> r.section_id, title |-> r.section_title]),
               questions_map |->
                   MapInsert(acc.questions_map, r.question_id,
                             [id |-> r.question_id, section_id |-> r.section_id,
                              text |-> r.question_text,
                              description |->
                                  UnwrapOrDefaultStr(r.question_description),
                              marks |-> r.question_marks]),
               options |->
                   Append(acc.options,
                          [id |-> r.option_id, question_id |-> r.question_id,
                           text |-> r.option_text,
                           is_correct |->
                               UnwrapOrDefaultBool(r.option_is_correct)])],
              Tail(responses))

NoDescription ==
    [title |-> NullStr, description |-> NullStr, duration |-> NullId,
     passing_score |-> NullId]

\* The exam description is taken from the first row;
\* exam_description.unwrap() panics when there is no row.
generate_final_response(responses) ==
    LET acc == CollectResponses(
                   [sections_map |-> <<>>, questions_map |-> <<>>,
                    options |-> <<>>], responses)
    IN IF responses = <<>>
       THEN [ok |-> FALSE, err |-> "panic: unwrap on None",
             exam_description |-> NoDescription,
             sections |-> <<>>, questions |-> <<>>, options |-> <<>>]
       ELSE [ok |-> TRUE, err |-> "",
             exam_description |->
                 [title |-> responses[1].exam.title,
                  description |->
                      UnwrapOrDefaultStr(responses[1].exam.description),
                  duration |-> responses[1].exam.duration,
                  passing_score |-> responses[1].exam.passing_score],
             sections |-> [i \in 1..Len(acc.sections_map) |->
                              acc.sections_map[i].value],
             questions |-> [i \in 1..Len(acc.questions_map) |->
                               acc.questions_map[i].value],
             options |-> acc.options]

\* The flat row lists handed to the regrouping: the rows of a join, one per
\* option, in any order; a question belongs to one section.  At most
\* MaxRows rows arrive.
MaxRows == 3

RegroupRow(s, q, o) ==
    [exam |-> [id |-> 1, exam_id |-> 1, title |-> VTitle("a"),
               description |-> VDescription("b"), duration |-> VMarks("a"),
               passing_score |-> VMarks("a")],
     section_id |-> s, section_title |-> VTitle("a"), section_details_id |-> 1,
     question_id |-> q, question_text |-> VText("a"),
     question_description |-> VDescription("b"), question_marks |-> VMarks("a"),
     option_id |-> o, option_text |-> VText("a"),
     option_is_correct |-> VIsCorrect("b")]

InitRegroup ==
    /\ db = EmptyDb
    /\ request = [kind |-> "regroup", rows |-> <<>>]
    /\ resp = NoResponse
    /\ log = <<>>
    /\ pre = EmptyDb

\* The next row of the join arrives: a row of an option that no earlier row
\* has, under a question that stays in the section it was seen in.
AppendRow ==
    /\ Handling("regroup")
    /\ Len(request.rows) < MaxRows
    /\ \E s \in SectionIds, q \in QuestionIds, o \in 1..MaxRows :
         /\ \A i \in 1..Len(request.rows) :
              /\ request.rows[i].option_id # o
              /\ request.rows[i].question_id = q =>
                     request.rows[i].section_id = s
         /\ request' = [request EXCEPT !.rows = Append(@, RegroupRow(s, q, o))]
    /\ UNCHANGED <<db, resp, log, pre>>

MapToSectionResponse ==
    /\ Handling("regroup")
    /\ LET m == map_to_section_response(request.rows)
       IN resp' = Response("map_to_section_response", [ok |-> TRUE, err |-> ""],
                           [sections |-> [i \in 1..Len(m) |-> m[i].value]],
                           "none")
    /\ UNCHANGED <<db, request, log, pre>>

GenerateFinalResponse ==
    /\ Handling("regroup")
    /\ LET r == generate_final_response(request.rows)
       IN resp' = Response("generate_final_response", r,
                           [sections |-> r.sections, questions |-> r.questions,
                            options |-> r.options], "none")
    /\ UNCHANGED <<db, request, log, pre>>

NextRegroup == AppendRow \/ MapToSectionResponse \/ GenerateFinalResponse

SpecRegroup == InitRegroup /\ [][NextRegroup]_vars

\* -------------------------------------------------------------------- llm
\* The option-generation endpoints.  A generated text is a sequence of
\* tokens: W a run of whitespace, F the fence ```, J the word json, X text
\* that is not JSON, or a JSON object, which names the fields it has and
\* holds the string list of each.  The strings of a list are numbered.
MaxResponses == 5

W == [tok |-> "W"]
F == [tok |-> "F"]
J == [tok |-> "J"]
X == [tok |-> "X"]
Strings(n) == [i \in 1..n |-> i]
JsonObject(fields, responses, correct_answer, distractors) ==
    [tok |-> "O", fields |-> fields, responses |-> responses,
     correct_answer |-> correct_answer, distractors |-> distractors]
IsObject(t) == t.tok = "O"

\* str::trim
RECURSIVE TrimStart(_)
TrimStart(t) ==
    IF t # <<>> /\ Head(t) = W THEN TrimStart(Tail(t)) ELSE t
RECURSIVE TrimEnd(_)
TrimEnd(t) ==
    IF t # <<>> /\ t[Len(t)] = W THEN TrimEnd(SubSeq(t, 1, Len(t) - 1)) ELSE t
Trim(t) == TrimEnd(TrimStart(t))

\* str::trim_start_matches("```json"), ("```") and trim_end_matches("```"):
\* the pattern is removed as often as it matches.
RECURSIVE TrimStartFenceJson(_)
TrimStartFenceJson(t) ==
    IF Len(t) >= 2 /\ t[1] = F /\ t[2] = J
    THEN TrimStartFenceJson(SubSeq(t, 3, Len(t))) ELSE t
RECURSIVE TrimStartFence(_)
TrimStartFence(t) ==
    IF t # <<>> /\ Head(t) = F THEN TrimStartFence(Tail(t)) ELSE t
RECURSIVE TrimEndFence(_)
TrimEndFence(t) ==
    IF t # <<>> /\ t[Len(t)] = F
    THEN TrimEndFence(SubSeq(t, 1, Len(t) - 1)) ELSE t

\* serde_json::from_str into a struct: whitespace around the value is
\* accepted, anything else around it is not; a field of the struct that the
\* object lacks is an error, a field the struct does not have is ignored.
FromStr(t, HasFields(_)) ==
    LET v == Trim(t)
    IN IF Len(v) = 1 /\ IsObject(v[1]) /\ HasFields(v[1])
       THEN [ok |-> TRUE, value |-> v[1]]
       ELSE [ok |-> FALSE, value |-> JsonObject({}, <<>>, <<>>, <<>>)]

\* model::response::GuessFillInTheBlankResponse { responses }
HasResponses(o) == "responses" \in o.fields
\* model::llm::GuessFillInTheBlankResponse { correct_answer, distractors }
HasDistractors(o) == {"correct_answer", "distractors"} \subseteq o.fields

NoJson == [absent |-> TRUE]
HttpResponse(status, json) == [status |-> status, json |-> json]

\* utils/parse.rs
parse_similar_fill_in_the_blanks_options(json_text) ==
    LET trimmed == Trim(json_text)
        clean_text ==
            IF trimmed # <<>> /\ Head(trimmed) = F
            THEN Trim(TrimEndFence(TrimStartFence(TrimStartFenceJson(trimmed))))
            ELSE trimmed
        parsed == FromStr(clean_text, HasResponses)
    IN IF ~parsed.ok THEN [ok |-> FALSE, value |-> NoJson]
       ELSE IF Len(parsed.value.responses) # 4
       THEN [ok |-> FALSE, value |-> NoJson]
       ELSE [ok |-> TRUE, value |-> [responses |-> parsed.value.responses]]

\* utils::parse::clean_llm_json_output is not among the sources: the fence
\* markers around the text are stripped.
clean_llm_json_output(raw_output) ==
    LET trimmed == Trim(raw_output)
    IN IF trimmed # <<>> /\ Head(trimmed) = F
       THEN Trim(TrimEndFence(TrimStartFence(TrimStartFenceJson(trimmed))))
       ELSE trimmed

\* routes/gen_options.rs
generate_options_from_context(req_body) ==
    IF ~req_body.llm.ok THEN HttpResponse(500, NoJson)
    ELSE LET r == parse_similar_fill_in_the_blanks_options(req_body.llm.text)
         IN IF r.ok THEN HttpResponse(200, r.value)
            ELSE HttpResponse(500, NoJson)

\* routes/mcq.rs
generate_mcq_options_from_context(req_body) ==
    IF req_body.language = "Arabic" THEN HttpResponse(400, NoJson)
    ELSE IF ~req_body.llm.ok THEN HttpResponse(500, NoJson)
    ELSE LET response == FromStr(clean_llm_json_output(req_body.llm.text),
                                 HasDistractors)
         IN IF ~response.ok THEN HttpResponse(500, NoJson)
            ELSE HttpResponse(200,
                     [correct_answer |-> response.value.correct_answer,
                      distractors |-> response.value.distractors])

\* The texts the generator returns: an object, bare or inside fences.
Wrappings(o) ==
    {<<o>>, <<W, o, W>>, <<F, J, W, o, W, F>>,
     <<F, W, o, W, F>>, <<W, F, J, W, o, W, F, W>>}

GeneratedObjects ==
    {JsonObject({"responses"}, Strings(n), <<>>, <<>>) : n \in 0..MaxResponses}
    \cup {JsonObject({"correct_answer", "distractors"}, <<>>, Strings(1),
                     Strings(n)) : n \in 0..MaxResponses}
    \cup {JsonObject({}, <<>>, <<>>, <<>>)}

GeneratedTexts ==
    UNION {Wrappings(o) : o \in GeneratedObjects}
    \cup {<<X>>, <<>>, <<F, J, W, X, W, F>>}
    \cup {<<X, W, o>> : o \in GeneratedObjects}
    \cup {<<F, J, W, o>> : o \in GeneratedObjects}

LLMReplies ==
    {[ok |-> TRUE, text |-> t] : t \in GeneratedTexts}
    \cup {[ok |-> FALSE, text |-> <<>>]}

RequestsLLM ==
    {[kind |-> k, language |-> l, llm |-> r] :
        k \in {"gen_options", "mcq"}, l \in {"Arabic", "Urdu"}, r \in LLMReplies}

ReceiveLLM == Receive(RequestsLLM)

GenerateOptionsFromContext ==
    /\ Handling("gen_options")
    /\ LET r == generate_options_from_context(request)
       IN resp' = Response("gen_options",
                           [ok |-> r.status = 200, err |-> ""], r, "none")
    /\ UNCHANGED <<db, request, log, pre>>

GenerateMcqOptionsFromContext ==
    /\ Handling("mcq")
    /\ LET r == generate_mcq_options_from_context(request)
       IN resp' = Response("mcq", [ok |-> r.status = 200, err |-> ""], r, "none")
    /\ UNCHANGED <<db, request, log, pre>>

NextLLM ==
    \/ ReceiveLLM
    \/ GenerateOptionsFromContext
    \/ GenerateMcqOptionsFromContext
    \/ Reply

SpecLLM == Init /\ [][NextLLM]_vars

\* ----------------------------------------------------------------- errors
\* errors.rs.  An AppError is its variant and the text of the error it
\* wraps; a string built by write! or format! is the sequence of its parts.
AppError(variant, text) == [variant |-> variant, text |-> text]

\* impl fmt::Display for AppError
fmt(e) ==
    CASE e.variant = "ActixError" -> <<"Actix error: ", e.text>>
      [] e.variant = "IOError" -> <<"I/O error: ", e.text>>
      [] e.variant = "NotFound" -> <<"Resource not found: ", e.text>>
      [] e.variant = "SystemTimeError" -> <<"System time error: ", e.text>>
      [] e.variant = "DbErr" -> <<"DbErr error: ", e.text>>
      [] e.variant = "SerdeError" -> <<"Serialization error: ", e.text>>

\* error_response with NotFound answered as a bad request.
error_response_bad_request(e) ==
    IF e.variant \in {"NotFound", "SystemTimeError"}
    THEN HttpResponse(400, [error |-> "Bad Request", message |-> fmt(e)])
    ELSE HttpResponse(500, [error |-> "Internal Server Error",
                            message |-> fmt(e)])

\* impl ResponseError for AppError
error_response(e) ==
    CASE e.variant \in {"ActixError", "IOError", "DbErr", "SerdeError"} ->
           HttpResponse(500, [error |-> "Internal Server Error",
                              message |-> fmt(e)])
      [] e.variant = "NotFound" ->
           HttpResponse(404, [error |-> "Not Found", message |-> fmt(e)])
      [] e.variant = "SystemTimeError" ->
           HttpResponse(400, [error |-> "Bad Request", message |-> fmt(e)])

\* ----------------------------------------------------------------- routes
\* The handlers of routes/mod.rs.  A path segment is a sequence of
\* characters; str::parse::<i32> accepts a non-empty run of decimal digits
\* (the segments of the model carry no sign and stay far below 2^31).
DigitChars == <<"0", "1", "2", "3", "4", "5", "6", "7", "8", "9">>
IsDigit(c) == \E i \in 1..10 : DigitChars[i] = c
DigitValue(c) == (CHOOSE i \in 1..10 : DigitChars[i] = c) - 1

RECURSIVE DecimalValue(_, _)
DecimalValue(s, acc) ==
    IF s = <<>> THEN acc
    ELSE DecimalValue(Tail(s), 10 * acc + DigitValue(Head(s)))

ParseI32(s) ==
    IF s # <<>> /\ \A i \in 1..Len(s) : IsDigit(s[i])
    THEN [ok |-> TRUE, value |-> DecimalValue(s, 0)]
    ELSE [ok |-> FALSE, value |-> NullId]

\* What a handler leaves: its outcome, the store, the statements it issued
\* and the HTTP response.  A handler that panics sends no response.
Handled(ok, err, d, l, http) ==
    [ok |-> ok, err |-> err, db |-> d, log |-> l, http |-> http]
NoHttpResponse == HttpResponse(0, [panic |-> TRUE])
Failed(e, fault, d, l) == Handled(FALSE, fault, d, l, error_response(e))

\* The storage errors sea_orm reports, by their text.
DbErrs == {"Conn", "Exec", "Query"}

\* routes/create.rs.  models::Exam is flat: the sections, the questions
\* with their section_id and the options with their question_id.
RouteSection(s) == [id |-> s, title |-> VTitle("a")]
RouteQuestion(q, s) ==
    [id |-> q, section_id |-> s, text |-> VText("a"), description |-> "da",
     marks |-> VMarks("a")]
RouteOption(o, q, c) ==
    [id |-> o, question_id |-> q, text |-> VText("a"), is_correct |-> c]
RouteExam(secs, qs, os) ==
    [exam_description |-> [title |-> VTitle("a"), description |-> "da",
                           duration |-> VMarks("a"),
                           passing_score |-> VMarks("a")],
     sections |-> secs, questions |-> qs, options |-> os]

\* insert_many(rows).exec(txn): a plain INSERT of all the rows, which fails
\* on an id that is stored or repeated.
InsertMany(stored, rows) ==
    IF /\ \A i \in 1..Len(rows) : rows[i].id \notin Ids(stored)
       /\ \A i, j \in 1..Len(rows) : rows[i].id = rows[j].id => i = j
    THEN [ok |-> TRUE, rows |-> stored \cup SeqToSet(rows)]
    ELSE [ok |-> FALSE, rows |-> stored]

\* The statements of insert, in the order it issues them.  The rows of
\* correct_option are read by no operation and their entity is not among the
\* sources: the statement is issued and can fail, its table is not kept.
RouteInsertSteps ==
    <<"exam", "details", "sections", "questions", "options", "correct_options">>

RouteInsertStep(step, tx, exam, exam_id, details_id) ==
    CASE step = "exam" ->
           IF exam_id \in Ids(tx.exams) THEN StmtErr(tx)
           ELSE StmtOk([tx EXCEPT !.exams = @ \cup {[id |-> exam_id]}])
      [] step = "details" ->
           IF details_id \in Ids(tx.descriptions) THEN StmtErr(tx)
           ELSE StmtOk([tx EXCEPT !.descriptions = @ \cup
                   {[id |-> details_id, exam_id |-> exam_id,
                     title |-> exam.exam_description.title,
                     description |-> exam.exam_description.description,
                     duration |-> exam.exam_description.duration,
                     passing_score |-> exam.exam_description.passing_score]}])
      [] step = "sections" ->
           LET r == InsertMany(tx.sections,
                        [i \in 1..Len(exam.sections) |->
                            [id |-> exam.sections[i].id,
                             details_id |-> details_id,
                             title |-> exam.sections[i].title]])
           IN IF r.ok THEN StmtOk([tx EXCEPT !.sections = r.rows])
              ELSE StmtErr(tx)
      [] step = "questions" ->
           LET r == InsertMany(tx.questions, exam.questions)
           IN IF r.ok /\ \A q \in r.rows : q.section_id \in Ids(tx.sections)
              THEN StmtOk([tx EXCEPT !.questions = r.rows])
              ELSE StmtErr(tx)
      [] step = "options" ->
           LET r == InsertMany(tx.options,
                        [i \in 1..Len(exam.options) |->
                            [exam.options[i] EXCEPT !.is_correct =
                                IF @ THEN "true" ELSE "false"]])
           IN IF r.ok /\ \A o \in r.rows : o.question_id \in Ids(tx.questions)
              THEN StmtOk([tx EXCEPT !.options = r.rows])
              ELSE StmtErr(tx)
      [] step = "correct_options" -> StmtOk(tx)

RouteFailPoints == {"none", "begin", "commit"} \cup SeqToSet(RouteInsertSteps)

\* Runs the statements left of the transaction; a failed statement returns
\* early with a DbErr, the transaction is dropped and rolls back.
RECURSIVE RunRouteInsert(_, _, _, _, _, _, _, _)
RunRouteInsert(steps, d, tx, exam, exam_id, details_id, fail, l) ==
    IF steps = <<>> THEN
        IF fail = "commit"
        THEN Failed(AppError("DbErr", "commit"), "commit", d,
                    l \o <<"COMMIT", "ROLLBACK">>)
        ELSE Handled(TRUE, "", tx, l \o <<"COMMIT">>,
                     HttpResponse(200, [exam_id |-> exam_id]))
    ELSE LET step == Head(steps)
             r == RouteInsertStep(step, tx, exam, exam_id, details_id)
         IN IF fail = step \/ ~r.ok
            THEN Failed(AppError("DbErr", step), step, d,
                        l \o <<step, "ROLLBACK">>)
            ELSE RunRouteInsert(Tail(steps), d, r.tx, exam, exam_id,
                                details_id, fail, l \o <<step>>)

\* insert: exam_id and details_id are the two values of get_random_int.
insert(d, exam, exam_id, details_id, fail) ==
    IF fail = "begin"
    THEN Failed(AppError("DbErr", "begin"), "begin", d, <<"BEGIN">>)
    ELSE RunRouteInsert(RouteInsertSteps, d, d, exam, exam_id, details_id,
                        fail, <<"BEGIN">>)

create_exam(d, req_body, exam_id, details_id, fail) ==
    insert(d, req_body, exam_id, details_id, fail)

\* routes/fetch.rs.  fetch_exam_query: the exam row inner-joined down to
\* the options, one row per option.
fetch_exam_query(d, exam_id) ==
    {[exam |-> x,
      section_id |-> s.id, section_title |-> s.title,
      section_details_id |-> s.details_id,
      question_id |-> q.id, question_text |-> q.text,
      question_description |-> q.description, question_marks |-> q.marks,
      option_id |-> o.id, option_text |-> o.text,
      option_is_correct |-> o.is_correct] :
        <<x, s, q, o>> \in
            {t \in d.descriptions \X d.sections \X d.questions \X d.options :
                /\ exam_id \in Ids(d.exams)
                /\ t[1].exam_id = exam_id
                /\ t[2].details_id = t[1].id
                /\ t[3].section_id = t[2].id
                /\ t[4].question_id = t[3].id}}

FetchFailPoints == {"none", "Conn", "Query"}

retrive(d, exam_id, fail) ==
    IF fail # "none"
    THEN Failed(AppError("DbErr", fail), fail, d, <<"SELECT exam">>)
    ELSE LET r == generate_final_response(
                      RowsInOrder(fetch_exam_query(d, exam_id)))
         IN IF r.ok
            THEN Handled(TRUE, "", d, <<"SELECT exam">>, HttpResponse(200, r))
            ELSE Handled(FALSE, "panic", d, <<"SELECT exam">>, NoHttpResponse)

fetch_exam(d, exam_id, fail) ==
    LET exam_id_int == ParseI32(exam_id)
    IN IF ~exam_id_int.ok
       THEN Failed(AppError("NotFound", "Invalid exam ID"), "NotFound", d, <<>>)
       ELSE retrive(d, exam_id_int.value, fail)

\* routes/delete.rs.  delete: DELETE FROM exam WHERE id = $1, with the
\* schema's cascade.
RouteDeleteFailPoints == {"none", "Conn", "Exec"}

delete(d, exam_id, fail) ==
    IF fail # "none"
    THEN Failed(AppError("DbErr", fail), fail, d, <<"DELETE exam">>)
    ELSE Handled(TRUE, "",
                 Cascade([d EXCEPT !.exams = {x \in @ : x.id # exam_id}]),
                 <<"DELETE exam">>, HttpResponse(200, NoJson))

delete_exam_handler(d, exam_id, fail) ==
    LET exam_id_int == ParseI32(exam_id)
    IN IF ~exam_id_int.ok
       THEN Failed(AppError("NotFound", "Invalid exam ID"), "NotFound", d, <<>>)
       ELSE delete(d, exam_id_int.value, fail)

\* database/queries/delete.rs.  delete_related_entities: one transaction
\* with a DELETE ... WHERE id = ANY($1) for each of the three tables.
RelatedFailPoints ==
    {"none", "begin", "DELETE sections", "DELETE questions", "DELETE options",
     "commit"}

delete_related_entities(d, deletion_data, fail) ==
    LET s1 == DeleteSections(d, SeqToSet(deletion_data.section_ids))
        s2 == DeleteQuestions(s1, SeqToSet(deletion_data.question_ids))
        s3 == DeleteOptions(s2, SeqToSet(deletion_data.option_ids))
        stmts == <<"DELETE sections", "DELETE questions", "DELETE options">>
        Upto(n) == <<"BEGIN">> \o SubSeq(stmts, 1, n)
    IN CASE fail = "begin" -> Result(FALSE, "begin", d, <<"BEGIN">>)
         [] fail = "DELETE sections" ->
              Result(FALSE, fail, d, Upto(1) \o <<"ROLLBACK">>)
         [] fail = "DELETE questions" ->
              Result(FALSE, fail, d, Upto(2) \o <<"ROLLBACK">>)
         [] fail = "DELETE options" ->
              Result(FALSE, fail, d, Upto(3) \o <<"ROLLBACK">>)
         [] fail = "commit" ->
              Result(FALSE, fail, d, Upto(3) \o <<"COMMIT", "ROLLBACK">>)
         [] OTHER -> Result(TRUE, "", s3, Upto(3) \o <<"COMMIT">>)

\* The requests of the routes specification.
PathSegments == {<<"1">>, <<"2">>, <<"0", "2">>, <<"x">>, <<"1", "x">>}

RouteExams ==
    {RouteExam(secs, qs, os) :
        secs \in {<<>>, <<RouteSection(1)>>,
                  <<RouteSection(1), RouteSection(2)>>},
        qs \in {<<>>, <<RouteQuestion(1, 1)>>, <<RouteQuestion(1, 2)>>},
        os \in {<<>>, <<RouteOption(1, 1, TRUE)>>,
                <<RouteOption(1, 1, FALSE), RouteOption(2, 1, TRUE)>>,
                <<RouteOption(1, 2, FALSE)>>}}

RequestsRoutes ==
    {[kind |-> "create_exam", body |-> b] : b \in RouteExams}
    \cup {[kind |-> "create", body |-> FullRequest(e, v)] :
             e \in ExamIds, v \in {"a", "b"}}
    \cup {[kind |-> "fetch_exam", path |-> p] : p \in PathSegments}
    \cup {[kind |-> "delete_exam_handler", path |-> p] : p \in PathSegments}
    \cup {[kind |-> "read", exam_id |-> e] : e \in ExamIds}
    \cup {[kind |-> "delete_related_entities", body |-> del] :
             del \in {Delete(ss, qs, os) : ss \in AscSeqs(SectionIds, 1),
                                           qs \in AscSeqs(QuestionIds, 1),
                                           os \in {<<>>, <<1>>}}}

ReceiveRoutes == Receive(RequestsRoutes)

CreateExamRoute ==
    /\ Handling("create_exam")
    /\ \E fail \in RouteFailPoints, exam_id \in ExamIds,
          details_id \in DescriptionIds :
         LET r == create_exam(db, request.body, exam_id, details_id, fail)
         IN /\ db' = r.db
            /\ resp' = Response("create_exam", r, r.http, fail)
            /\ log' = r.log
    /\ UNCHANGED <<request, pre>>

FetchExam ==
    /\ Handling("fetch_exam")
    /\ \E fail \in FetchFailPoints :
         LET r == fetch_exam(db, request.path, fail)
         IN /\ resp' = Response("fetch_exam", r, r.http, fail)
            /\ log' = r.log
    /\ UNCHANGED <<db, request, pre>>

DeleteExamRoute ==
    /\ Handling("delete_exam_handler")
    /\ \E fail \in RouteDeleteFailPoints :
         LET r == delete_exam_handler(db, request.path, fail)
         IN /\ db' = r.db
            /\ resp' = Response("delete_exam_handler", r, r.http, fail)
            /\ log' = r.log
    /\ UNCHANGED <<request, pre>>

DeleteRelatedEntities ==
    /\ Handling("delete_related_entities")
    /\ \E fail \in RelatedFailPoints :
         LET r == delete_related_entities(db, request.body, fail)
         IN /\ db' = r.db
            /\ resp' = Response("delete_related_entities", r, NoBody, fail)
            /\ log' = r.log
    /\ UNCHANGED <<request, pre>>

NextRoutes ==
    \/ ReceiveRoutes
    \/ CreateExamRoute
    \/ CreateExam
    \/ FetchExam
    \/ ReadExam
    \/ DeleteExamRoute
    \/ DeleteRelatedEntities
    \/ Reply

SpecRoutes == Init /\ [][NextRoutes]_vars

\* ------------------------------------------------------------- concurrency
\* actix-web serves each request on its own task, and every .await on the
\* store is a point where the tasks of other requests run.  Two clients have
\* one request in flight each.  A statement executes atomically on the store
\* when it is issued; a handler that works on a transaction (insert_exam,
\* delete_exam) shows nothing until its commit, so it is one step; the
\* handlers that work on the pool (read_exam_data, edit_exam) take one step
\* per statement.
\*
\* In this specification request, resp and log hold one value per client,
\* and pre holds the count of requests received, and per client what its
\* handler keeps between statements (local) and the stores that existed
\* while it ran (seen).
Clients == {1, 2}

MaxServed == 3

\* fetch_exam_id and fetch_exam_description: fetch_one fails with
\* RowNotFound when the query returns no row.
NoRow == [id |-> NullId]

fetch_exam_id(d, exam_id) ==
    LET exams == {x \in d.exams : x.id = exam_id}
    IN IF exams = {} THEN [ok |-> FALSE, row |-> NoRow]
       ELSE [ok |-> TRUE, row |-> CHOOSE y \in exams : TRUE]

fetch_exam_description(d, exam_id) ==
    LET descs == {x \in d.descriptions : x.exam_id = exam_id}
    IN IF descs = {} THEN [ok |-> FALSE, row |-> NoRow]
       ELSE [ok |-> TRUE, row |-> CHOOSE y \in descs : TRUE]

\* The ExamResponse read_exam_data builds from what its three queries gave.
ExamResponse(exam_model, exam_description, rows) ==
    LET sections_map == map_to_section_response(rows)
    IN [exam_id |-> [id |-> exam_model.id],
        description |->
            [exam_description EXCEPT !.description = UnwrapOrDefaultStr(@)],
        sections |-> [i \in 1..Len(sections_map) |-> sections_map[i].value]]

ReadStatements == <<"SELECT exam", "SELECT details", "SELECT sections">>

\* The statements of edit_exam in the order the handler reaches them.
EditStatements ==
    <<"update_section", "update_question", "update_option", "fetch_ids",
      "delete_sections", "delete_questions", "delete_options">>

\* The handler issues the statement: its list is not empty, and for a
\* delete the expanded set dd is not empty.
EditIssues(step, body, dd) ==
    CASE step = "update_section" -> body.sections # <<>>
      [] step = "update_question" -> body.questions # <<>>
      [] step = "update_option" -> body.options # <<>>
      [] step = "fetch_ids" -> ~Delete_is_all_empty(body.delete)
      [] step = "delete_sections" ->
           ~Delete_is_all_empty(body.delete) /\ dd.section_id_to_delete # {}
      [] step = "delete_questions" ->
           ~Delete_is_all_empty(body.delete) /\ dd.question_id_to_delete # {}
      [] step = "delete_options" ->
           ~Delete_is_all_empty(body.delete) /\ dd.option_id_to_delete # {}

\* The position in EditStatements of the next statement of an edit that has
\* issued the statements of l, 0 when the handler has none left.
NextEditStatement(body, dd, l) ==
    LET at == IF l = <<>> THEN 0
              ELSE CHOOSE i \in 1..Len(EditStatements) :
                       EditStatements[i] = l[Len(l)]
        left == {i \in (at + 1)..Len(EditStatements) :
                    EditIssues(EditStatements[i], body, dd)}
    IN IF left = {} THEN 0 ELSE CHOOSE i \in left : \A j \in left : i <= j

\* An edit entry for row i that sets every field to a value of variant v.
SectionEditAs(i, v) == [id |-> i, title |-> v]
QuestionEditAs(i, v) ==
    [id |-> i, section_id |-> i, text |-> v,
     description |-> IF v = "e" THEN "de" ELSE "df",
     marks |-> IF v = "e" THEN 3 ELSE 4]
OptionEditAs(i, v) ==
    [id |-> i, question_id |-> i, text |-> v,
     is_correct |-> IF v = "e" THEN "false" ELSE "true"]

\* Two edits that set the same section and question to different values,
\* one of them also an option; and an edit that deletes the section.
ConcurrentEdits ==
    {EditExam(1, <<SectionEditAs(1, "e")>>, <<QuestionEditAs(1, "e")>>,
              <<OptionEditAs(1, "e")>>, Delete(<<>>, <<>>, <<>>)),
     EditExam(1, <<SectionEditAs(1, "f")>>, <<QuestionEditAs(1, "f")>>,
              <<>>, Delete(<<>>, <<>>, <<>>)),
     EditExam(1, <<>>, <<>>, <<>>, Delete(<<1>>, <<>>, <<>>))}

RequestsConcurrent ==
    {[kind |-> "create", body |-> FullRequest(1, v)] : v \in {"a", "b"}}
    \cup {[kind |-> "delete_exam", exam_id |-> 1]}
    \cup {[kind |-> "read", exam_id |-> 1]}
    \cup {[kind |-> "edit", body |-> b] : b \in ConcurrentEdits}

NoLocal ==
    [ticket |-> 0, alone |-> FALSE, dd |-> DeletionData(<<>>, <<>>, <<>>, {}),
     exam |-> NoRow, description |-> NoRow]

InitConcurrent ==
    /\ db = EmptyDb
    /\ request = [c \in Clients |-> NoRequest]
    /\ resp = [c \in Clients |-> NoResponse]
    /\ log = [c \in Clients |-> <<>>]
    /\ pre = [served |-> 0,
              local |-> [c \in Clients |-> NoLocal],
              seen |-> [c \in Clients |-> {}]]

Running(c, kind) == request[c].kind = kind /\ resp[c] = NoResponse

\* The stores each running handler has lived through, after a step that
\* leaves the store as d.
Seen(d) ==
    [c \in Clients |->
        IF request[c] # NoRequest /\ resp[c] = NoResponse
        THEN pre.seen[c] \cup {d} ELSE pre.seen[c]]

ReceiveConcurrent(c) ==
    /\ request[c] = NoRequest
    /\ pre.served < MaxServed
    /\ \E r \in RequestsConcurrent : request' = [request EXCEPT ![c] = r]
    /\ pre' = [served |-> pre.served + 1,
               local |-> [pre.local EXCEPT ![c] =
                            [NoLocal EXCEPT
                                !.ticket = pre.served + 1,
                                !.alone = \A o \in Clients \ {c} :
                                              request[o] = NoRequest]],
               seen |-> [pre.seen EXCEPT ![c] = {db}]]
    /\ UNCHANGED <<db, resp, log>>

\* insert_exam: the transaction's inserts become visible at its commit.
CreateConcurrent(c) ==
    /\ Running(c, "create")
    /\ \E fail \in FailPoints :
         LET r == insert_exam(db, request[c].body, fail)
         IN /\ db' = r.db
            /\ resp' = [resp EXCEPT ![c] = Response("create", r, NoBody, fail)]
            /\ log' = [log EXCEPT ![c] = r.log]
            /\ pre' = [pre EXCEPT !.seen = Seen(r.db)]
    /\ UNCHANGED request

\* delete_exam: one DELETE on a transaction, visible at its commit.
DeleteConcurrent(c) ==
    /\ Running(c, "delete_exam")
    /\ \E fail \in DeleteFailPoints :
         LET r == delete_exam(db, request[c].exam_id, fail)
         IN /\ db' = r.db
            /\ resp' = [resp EXCEPT ![c] = Response("delete_exam", r, NoBody, fail)]
            /\ log' = [log EXCEPT ![c] = r.log]
            /\ pre' = [pre EXCEPT !.seen = Seen(r.db)]
    /\ UNCHANGED request

\* read_exam_data: the next of its three queries runs on the store as it is
\* now; an Err leaves the handler, the last query builds the response.
ReadStatement(c) ==
    /\ Running(c, "read")
    /\ LET e == request[c].exam_id
           n == Len(log[c]) + 1
           loc == pre.local[c]
           Err(text) == [resp EXCEPT ![c] =
                            Response("read", [ok |-> FALSE, err |-> text],
                                     NoBody, "none")]
       IN /\ log' = [log EXCEPT ![c] = Append(@, ReadStatements[n])]
          /\ CASE n = 1 ->
                    LET r == fetch_exam_id(db, e)
                    IN /\ resp' = IF r.ok THEN resp
                                  ELSE Err("RowNotFound: exam id")
                       /\ pre' = [pre EXCEPT !.local[c].exam = r.row]
               [] n = 2 ->
                    LET r == fetch_exam_description(db, e)
                    IN /\ resp' = IF r.ok THEN resp
                                  ELSE Err("RowNotFound: exam description")
                       /\ pre' = [pre EXCEPT !.local[c].description = r.row]
               [] OTHER ->
                    LET r == fetch_sections_and_questions(db, e)
                    IN /\ resp' =
                           IF ~r.ok
                           THEN Err("ColumnDecode: sections and questions")
                           ELSE [resp EXCEPT ![c] =
                                   Response("read", [ok |-> TRUE, err |-> ""],
                                            ExamResponse(loc.exam,
                                                         loc.description,
                                                         r.rows),
                                            "none")]
                       /\ pre' = pre
    /\ UNCHANGED <<db, request>>

\* edit_exam: the next statement the handler issues runs on the store as it
\* is now.  An Err leaves the handler; after its last statement, or with no
\* statement to issue, the handler returns Ok.
EditStatement(c) ==
    /\ Running(c, "edit")
    /\ LET body == request[c].body
           loc == pre.local[c]
           n == NextEditStatement(body, loc.dd, log[c])
           Ok == [resp EXCEPT ![c] =
                     Response("edit", [ok |-> TRUE, err |-> ""], NoBody, "none")]
       IN IF n = 0
          THEN /\ resp' = Ok
               /\ UNCHANGED <<db, log, pre>>
          ELSE \E fault \in BOOLEAN :
                 LET step == EditStatements[n]
                     r == EditStep(step, db, body, loc.dd)
                     l == Append(log[c], step)
                     dd == IF step = "fetch_ids"
                           THEN filter_deletions(
                                  DeletionData(body.delete.section_ids,
                                               body.delete.question_ids,
                                               body.delete.option_ids,
                                               IdsFinalResponse(
                                                 fetch_ids_query(db, body.exam_id))))
                           ELSE loc.dd
                 IN /\ log' = [log EXCEPT ![c] = l]
                    /\ IF fault \/ ~r.ok
                       THEN /\ resp' = [resp EXCEPT ![c] =
                                          Response("edit",
                                                   [ok |-> FALSE, err |-> step],
                                                   NoBody,
                                                   IF fault THEN step ELSE "none")]
                            /\ UNCHANGED <<db, pre>>
                       ELSE /\ db' = r.tx
                            /\ resp' = IF NextEditStatement(body, dd, l) = 0
                                       THEN Ok ELSE resp
                            /\ pre' = [pre EXCEPT !.local[c].dd = dd,
                                                  !.seen = Seen(r.tx)]
    /\ UNCHANGED request

ReplyConcurrent(c) ==
    /\ resp[c] # NoResponse
    /\ request' = [request EXCEPT ![c] = NoRequest]
    /\ resp' = [resp EXCEPT ![c] = NoResponse]
    /\ log' = [log EXCEPT ![c] = <<>>]
    /\ pre' = [pre EXCEPT !.local[c] = NoLocal, !.seen[c] = {}]
    /\ UNCHANGED db

NextConcurrent ==
    \E c \in Clients :
        \/ ReceiveConcurrent(c)
        \/ CreateConcurrent(c)
        \/ DeleteConcurrent(c)
        \/ ReadStatement(c)
        \/ EditStatement(c)
        \/ ReplyConcurrent(c)

SpecConcurrent == InitConcurrent /\ [][NextConcurrent]_vars

\* ---------------------------------------------------------------- llm call
\* services/llm.rs and handlers/llm_response_handler.rs: the call to the
\* text-generation API.  An Option is a sequence of no or one element.  A
\* JSON body is valid JSON or not; in a valid body every field may be
\* missing, so each field holds an Option: candidates a list of candidates,
\* a candidate's content, a content's parts a list of parts, a part's text.
MaxCandidates == 2
MaxParts == 2

None == <<>>
Some(x) == <<x>>

Texts == {"", "x", "y"}

\* The sequences of at most n elements of S.
RECURSIVE SeqsUpTo(_, _)
SeqsUpTo(S, n) ==
    IF n = 0 THEN {<<>>}
    ELSE {<<>>} \cup {<<x>> \o t : x \in S, t \in SeqsUpTo(S, n - 1)}

JsonParts == {[text |-> None]} \cup {[text |-> Some(t)] : t \in Texts}
JsonContents ==
    {[parts |-> None]} \cup {[parts |-> Some(ps)] : ps \in SeqsUpTo(JsonParts, MaxParts)}
JsonCandidates ==
    {[content |-> None]} \cup {[content |-> Some(c)] : c \in JsonContents}
JsonBodies ==
    {[valid |-> FALSE, candidates |-> None], [valid |-> TRUE, candidates |-> None]}
    \cup {[valid |-> TRUE, candidates |-> Some(cs)] :
             cs \in SeqsUpTo(JsonCandidates, MaxCandidates)}

\* serde_json::from_str::<LLMResponse>: candidates and content are Option
\* fields (missing gives None); parts (Vec<LLMPartResponse>) and text
\* (String) are required, and one missing anywhere in the body fails the
\* whole parse.  The value holds parts and text without the Option.
ContentFromJson(c) ==
    [parts |-> [i \in 1..Len(c.parts[1]) |-> [text |-> c.parts[1][i].text[1]]]]

ContentDeserializes(c) ==
    /\ c.parts # None
    /\ \A i \in 1..Len(c.parts[1]) : c.parts[1][i].text # None

LLMResponse_from_str(body) ==
    LET cands == IF body.candidates = None THEN <<>> ELSE body.candidates[1]
        good == /\ body.valid
                /\ \A i \in 1..Len(cands) :
                       cands[i].content # None =>
                           ContentDeserializes(cands[i].content[1])
    IN IF ~good THEN [ok |-> FALSE, value |-> [candidates |-> None]]
       ELSE [ok |-> TRUE,
             value |->
                [candidates |->
                    IF body.candidates = None THEN None
                    ELSE Some([i \in 1..Len(cands) |->
                            [content |->
                                IF cands[i].content = None THEN None
                                ELSE Some(ContentFromJson(cands[i].content[1]))]])]]

\* slice::first and Option::and_then
First(s) == IF s = <<>> THEN None ELSE Some(s[1])

LLMResult(ok, text, err) == [ok |-> ok, text |-> text, err |-> err]

\* The and_then chain unwrapped with unwrap_or_default: a missing text
\* gives the empty string.
parse_llm_response_text_or_default(body) ==
    LET api_response == LLMResponse_from_str(body)
        cand == IF api_response.value.candidates = None THEN None
                ELSE First(api_response.value.candidates[1])
        content == IF cand = None THEN None ELSE cand[1].content
        part == IF content = None THEN None ELSE First(content[1].parts)
    IN IF ~api_response.ok
       THEN LLMResult(FALSE, "", "Failed to parse LLM API JSON")
       ELSE IF part = None THEN LLMResult(TRUE, "", "")
       ELSE LLMResult(TRUE, part[1].text, "")

parse_llm_response_text(body) ==
    LET api_response == LLMResponse_from_str(body)
        cand == IF api_response.value.candidates = None THEN None
                ELSE First(api_response.value.candidates[1])
        content == IF cand = None THEN None ELSE cand[1].content
        part == IF content = None THEN None ELSE First(content[1].parts)
    IN IF ~api_response.ok
       THEN LLMResult(FALSE, "", "Failed to parse LLM API JSON")
       ELSE IF part = None
       THEN LLMResult(FALSE, "", "No valid text in LLM response")
       ELSE LLMResult(TRUE, part[1].text, "")

\* StatusCode::is_success
is_success(status) == 200 <= status /\ status <= 299

\* What the API answers: nothing (the request could not be sent), or a
\* status and a body.
send_prompt_to_llm(reply) ==
    IF ~reply.sent THEN LLMResult(FALSE, "", "send")
    ELSE IF ~is_success(reply.status) THEN LLMResult(FALSE, "", "LLM API Error")
    ELSE parse_llm_response_text(reply.body)

\* handle_llm_response carries the same steps inline.
handle_llm_response(reply) ==
    IF ~reply.sent
    THEN LLMResult(FALSE, "", "Failed to send request to LLM API")
    ELSE IF ~is_success(reply.status) THEN LLMResult(FALSE, "", "LLM API Error")
    ELSE parse_llm_response_text(reply.body)

Statuses == {199, 200, 204, 299, 300, 404, 500}

ApiReplies ==
    {[sent |-> FALSE, status |-> 0, body |-> [valid |-> FALSE, candidates |-> None]]}
    \cup {[sent |-> TRUE, status |-> s, body |-> b] :
             s \in Statuses, b \in JsonBodies}

RequestsLLMCall ==
    {[kind |-> k, reply |-> r] :
        k \in {"send_prompt_to_llm", "handle_llm_response"}, r \in ApiReplies}

ReceiveLLMCall == Receive(RequestsLLMCall)

SendPromptToLLM ==
    /\ Handling("send_prompt_to_llm")
    /\ LET r == send_prompt_to_llm(request.reply)
       IN resp' = Response("send_prompt_to_llm", r, [text |-> r.text], "none")
    /\ UNCHANGED <<db, request, log, pre>>

HandleLLMResponse ==
    /\ Handling("handle_llm_response")
    /\ LET r == handle_llm_response(request.reply)
       IN resp' = Response("handle_llm_response", r, [text |-> r.text], "none")
    /\ UNCHANGED <<db, request, log, pre>>

NextLLMCall ==
    \/ ReceiveLLMCall
    \/ SendPromptToLLM
    \/ HandleLLMResponse
    \/ Reply

SpecLLMCall == Init /\ [][NextLLMCall]_vars

\* -------------------------------------------------------- key-value backend
\* routes/exam.rs: the handlers that keep an exam as hashes of the
\* key-value store.  RedisSchema and the request and response types of these
\* handlers are not part of the sources; the key layout, exam:{id} and
\* exam:{id}:question:{id}, is the one the specification gives.  A key is the
\* sequence of its ':'-separated segments, an id a sequence of characters,
\* a hash a record of its fields, the store (db) a set of [key, hash]
\* entries.  pre holds the UUIDs generated so far: Uuid::new_v4 is taken
\* never to return the same UUID twice.

\* The strings Uuid::new_v4().to_string() can give, cut down to five
\* characters: two leading groups, three continuations of each.
Uuids == {<<c, c, c, c, t>> : c \in {"0", "f"}, t \in {"0", "1", "2"}}

\* uuid.to_string().chars().take(length).collect()
get_short_uuid(uuid, length) ==
    SubSeq(uuid, 1, IF length < Len(uuid) THEN length ELSE Len(uuid))

exam_key(exam_id) == <<"exam", exam_id>>
question_key(exam_id, question_id) == <<"exam", exam_id, "question", question_id>>

\* u32::to_string
RECURSIVE to_string(_)
to_string(n) ==
    IF n < 10 THEN <<DigitChars[n + 1]>>
    ELSE to_string(n \div 10) \o <<DigitChars[(n % 10) + 1]>>

\* serde_json::to_string and serde_json::from_str of the option list.
ToJson(v) == [json |-> v]
FromJson(t) == IF "json" \in DOMAIN t THEN Some(t.json) ELSE None

\* HSET key field value [field value ...]: the fields given replace the
\* fields of the same name of the hash at key, which is created if absent.
HSetMultiple(kv, key, fields) ==
    LET old == {e \in kv : e.key = key}
        h == IF old = {} THEN fields
             ELSE LET o == (CHOOSE e \in old : TRUE).hash
                  IN [f \in DOMAIN o \cup DOMAIN fields |->
                         IF f \in DOMAIN fields THEN fields[f] ELSE o[f]]
    IN (kv \ old) \cup {[key |-> key, hash |-> h]}

\* HGETALL: the hash at key, the empty hash when there is none.
HGetAll(kv, key) ==
    LET at == {e \in kv : e.key = key}
    IN IF at = {} THEN <<>> ELSE (CHOOSE e \in at : TRUE).hash

\* HashMap::get
Get(hash, field) == IF field \in DOMAIN hash THEN Some(hash[field]) ELSE None

\* KEYS exam:{id}:question:*
KeysOfQuestions(kv, exam_id) ==
    {e.key : e \in {x \in kv : /\ Len(x.key) = 4
                               /\ SubSeq(x.key, 1, 3) =
                                      SubSeq(question_key(exam_id, <<>>), 1, 3)}}

\* The pipeline of insert_exam_into_redis: the HSET of the exam, then one
\* HSET per question under a freshly generated question id.
RECURSIVE QuestionHSets(_, _, _, _)
QuestionHSets(kv, exam_id, questions, uuids) ==
    IF questions = <<>> THEN kv
    ELSE LET question == Head(questions)
             question_id == get_short_uuid(Head(uuids), 4)
         IN QuestionHSets(
                HSetMultiple(kv, question_key(exam_id, question_id),
                             [name |-> question.question,
                              options |-> ToJson(question.options),
                              marks |-> to_string(question.marks),
                              section |-> question.section]),
                exam_id, Tail(questions), Tail(uuids))

KvFailPoints == {"none", "get_connection", "query_async"}

\* insert_exam_into_redis with the UUIDs it generates: the pipeline is
\* atomic, a failure applies none of it.
insert_exam_into_redis(kv, exam, exam_uuid, question_uuids, fail) ==
    LET exam_id == get_short_uuid(exam_uuid, 4)
        with_exam == HSetMultiple(kv, exam_key(exam_id),
                                  [name |-> exam.exam_name,
                                   details |-> exam.details,
                                   duration |-> to_string(exam.duration)])
        piped == QuestionHSets(with_exam, exam_id, exam.questions, question_uuids)
    IN IF fail # "none"
       THEN Handled(FALSE, fail, kv, <<>>, HttpResponse(500, [exam_id |-> <<>>]))
       ELSE Handled(TRUE, "", piped, <<"MULTI", "EXEC">>,
                    HttpResponse(200, [exam_id |-> exam_id]))

fetch_exam_metadata(kv, key) ==
    LET metadata == HGetAll(kv, key)
        name == Get(metadata, "name")
        details == Get(metadata, "details")
        duration == Get(metadata, "duration")
    IN [exam_name |-> IF name = None THEN "" ELSE name[1],
        details |-> IF details = None THEN "" ELSE details[1],
        duration |-> IF duration # None /\ ParseI32(duration[1]).ok
                     THEN ParseI32(duration[1]).value ELSE 0]

\* The QuestionResponse a task of fetch_questions builds from one key.
QuestionResponse(kv, key, exam_id) ==
    LET metadata == HGetAll(kv, key)
        name == Get(metadata, "name")
        options == Get(metadata, "options")
        marks == Get(metadata, "marks")
        section == Get(metadata, "section")
    IN [question |-> IF name = None THEN "" ELSE name[1],
        options |-> IF options # None /\ FromJson(options[1]) # None
                    THEN FromJson(options[1])[1] ELSE <<>>,
        marks |-> IF marks # None /\ ParseI32(marks[1]).ok
                  THEN ParseI32(marks[1]).value ELSE 0,
        section |-> IF section = None THEN "" ELSE section[1],
        question_id |-> key[Len(key)],
        exam_id |-> exam_id]

\* section_map.entry(section).or_insert_with(Vec::new).push(question)
PushQuestion(map, question) ==
    LET HasKey(e) == e.key = question.section
        at == EntryOrInsert(map, question.section, <<>>)
        i == CHOOSE j \in 1..Len(at) : HasKey(at[j])
    IN [at EXCEPT ![i].value = Append(@, question)]

\* fetch_questions: the keys KEYS returns, in an order the source leaves
\* open, each read and pushed under its section.
RECURSIVE SectionMap(_, _, _, _)
SectionMap(map, kv, keys, exam_id) ==
    IF keys = {} THEN map
    ELSE LET key == CHOOSE k \in keys : TRUE
         IN SectionMap(PushQuestion(map, QuestionResponse(kv, key, exam_id)),
                       kv, keys \ {key}, exam_id)

fetch_questions(kv, exam_id) ==
    SectionMap(<<>>, kv, KeysOfQuestions(kv, exam_id), exam_id)

fetch_exam_from_redis(kv, exam_id, fail) ==
    LET exam_metadata == fetch_exam_metadata(kv, exam_key(exam_id))
    IN IF fail # "none"
       THEN Handled(FALSE, fail, kv, <<>>, HttpResponse(500, [sections |-> <<>>]))
       ELSE Handled(TRUE, "", kv, <<"HGETALL", "KEYS">>,
                    HttpResponse(200,
                        [exam_name |-> exam_metadata.exam_name,
                         details |-> exam_metadata.details,
                         duration |-> exam_metadata.duration,
                         sections |-> fetch_questions(kv, exam_id)]))

\* The bodies of the create: an exam of no, one or two questions, the two
\* in one section or in two.
KvQuestion(name, section) ==
    [question |-> name, options |-> <<"o1", "o2">>, marks |-> 12,
     section |-> section]

KvExams ==
    {[exam_name |-> n, details |-> "d", duration |-> 30, questions |-> qs] :
        n \in {"A", "B"},
        qs \in {<<>>, <<KvQuestion("q1", "s1")>>,
                <<KvQuestion("q1", "s1"), KvQuestion("q2", "s1")>>,
                <<KvQuestion("q1", "s1"), KvQuestion("q2", "s2")>>}}

RequestsKv ==
    {[kind |-> "kv_create", body |-> b] : b \in KvExams}
    \cup {[kind |-> "kv_get", id |-> get_short_uuid(u, 4)] : u \in Uuids}

InitKv ==
    /\ db = {}
    /\ request = NoRequest
    /\ resp = NoResponse
    /\ log = <<>>
    /\ pre = {}

ReceiveKv ==
    /\ request = NoRequest
    /\ \E r \in RequestsKv : request' = r
    /\ UNCHANGED <<db, resp, log, pre>>

\* The sequences of n distinct elements of S.
RECURSIVE DistinctSeqs(_, _)
DistinctSeqs(S, n) ==
    IF n = 0 THEN {<<>>}
    ELSE UNION {{<<x>> \o t : t \in DistinctSeqs(S \ {x}, n - 1)} : x \in S}

CreateExamKv ==
    /\ Handling("kv_create")
    /\ \E fail \in KvFailPoints :
       \E uuids \in DistinctSeqs(Uuids \ pre, 1 + Len(request.body.questions)) :
         LET r == insert_exam_into_redis(db, request.body, Head(uuids),
                                         Tail(uuids), fail)
         IN /\ db' = r.db
            /\ resp' = Response("kv_create", r, r.http, fail)
            /\ log' = r.log
            /\ pre' = IF fail = "get_connection" THEN pre
                      ELSE pre \cup SeqToSet(uuids)
    /\ UNCHANGED request

GetExamKv ==
    /\ Handling("kv_get")
    /\ \E fail \in {"none", "get_connection"} :
         LET r == fetch_exam_from_redis(db, request.id, fail)
         IN /\ resp' = Response("kv_get", r, r.http, fail)
            /\ log' = r.log
    /\ UNCHANGED <<db, request, pre>>

ReplyKv ==
    /\ resp # NoResponse
    /\ request' = NoRequest
    /\ resp' = NoResponse
    /\ log' = <<>>
    /\ UNCHANGED <<db, pre>>

NextKv ==
    \/ ReceiveKv
    \/ CreateExamKv
    \/ GetExamKv
    \/ ReplyKv

SpecKv == InitKv /\ [][NextKv]_vars

\* ----------------------------------------------------------------- claims
\* The handler of a request of this kind has run and its reply has not left.
Done(kind) == request.kind = kind /\ resp # NoResponse

\* The rows of store d that belong to exam e.
DescriptionsOf(d, e) == {x \in d.descriptions : x.exam_id = e}
SectionsOf(d, e) == {s \in d.sections : s.details_id \in Ids(DescriptionsOf(d, e))}
QuestionsOf(d, e) == {q \in d.questions : q.section_id \in Ids(SectionsOf(d, e))}
OptionsOf(d, e) == {o \in d.options : o.question_id \in Ids(QuestionsOf(d, e))}

ReadsNotFound(d, e) ==
    LET r == read_exam_data(d, e)
    IN ~r.ok /\ r.err = "RowNotFound: exam id"

\* C1 (as amended): a create that fails, at whichever step, leaves the store
\* exactly as it found it, and when no exam held the request's id before,
\* a read of that id finds no exam.
C1_CreateIsAtomic ==
    (Done("create") /\ ~resp.ok) =>
        /\ db = pre
        /\ request.body.exam_id.id \notin Ids(pre.exams) =>
               ReadsNotFound(db, request.body.exam_id.id)

\* A create failed at its last insert, after the four before it had stored
\* rows in the transaction, for an exam id that was free.
C1_Witness ==
    /\ Done("create") /\ ~resp.ok /\ resp.err = "options"
    /\ request.body.exam_id.id \notin Ids(pre.exams)
    /\ request.body.sections # <<>>

\* C1 as stated: after a failed create no exam row with the tree's id is
\* stored and a read of the id finds no exam.
C1_Original ==
    (Done("create") /\ ~resp.ok) =>
        /\ request.body.exam_id.id \notin Ids(db.exams)
        /\ ReadsNotFound(db, request.body.exam_id.id)

C5_DeleteIdempotent ==
    (/\ Done("delete_exam")
     /\ request.exam_id \notin Ids(pre.exams)
     /\ resp.fault = "none") =>
        resp.ok /\ db = pre

\* A delete of an absent id ran against a store that holds another exam.
C5_Witness ==
    /\ Done("delete_exam") /\ resp.ok
    /\ request.exam_id \notin Ids(pre.exams)
    /\ pre.exams # {}

\* The rows of a request tree and of a read result as sets, each with the
\* id of the node it is nested in.
TreeSections(b) ==
    {[id |-> b.sections[i].id, details_id |-> b.sections[i].details_id,
      title |-> b.sections[i].title] : i \in 1..Len(b.sections)}
TreeQuestions(b) ==
    UNION {{[parent |-> b.sections[i].id, id |-> q.id, text |-> q.text,
             description |-> q.description, marks |-> q.marks] :
               q \in SeqToSet(b.sections[i].questions)} : i \in 1..Len(b.sections)}
TreeOptions(b) ==
    UNION {UNION {{[parent |-> q.id, id |-> o.id, text |-> o.text,
                    is_correct |-> o.is_correct] : o \in SeqToSet(q.options)} :
                     q \in SeqToSet(b.sections[i].questions)} :
              i \in 1..Len(b.sections)}

ReadSections(body) == {body.sections[i].base : i \in 1..Len(body.sections)}
ReadQuestions(body) ==
    UNION {{[parent |-> body.sections[i].base.id, id |-> q.base.id,
             text |-> q.base.text, description |-> q.base.description,
             marks |-> q.base.marks] :
               q \in SeqToSet(body.sections[i].questions)} :
           i \in 1..Len(body.sections)}
ReadOptions(body) ==
    UNION {UNION {{[parent |-> q.base.id, id |-> o.base.id,
                    text |-> o.base.text, is_correct |-> o.base.is_correct] :
                      o \in SeqToSet(q.options)} :
                     q \in SeqToSet(body.sections[i].questions)} :
              i \in 1..Len(body.sections)}

\* C2: after a successful create of a tree, a read of its exam id succeeds
\* and returns the tree's sections, questions and options: the same ids,
\* each under the same parent and with the same field values.
C2_RoundTrip ==
    (Done("create") /\ resp.ok) =>
        LET r == read_exam_data(db, request.body.exam_id.id)
        IN /\ r.ok
           /\ ReadSections(r.body) = TreeSections(request.body)
           /\ ReadQuestions(r.body) = TreeQuestions(request.body)
           /\ ReadOptions(r.body) = TreeOptions(request.body)

\* C7: a read of an exam returns every section of the exam that has no
\* question, with an empty questions list.
C7_EmptySectionPresent ==
    (Done("read") /\ DescriptionsOf(db, request.exam_id) # {}
                  /\ request.exam_id \in Ids(db.exams)) =>
        \A s \in SectionsOf(db, request.exam_id) :
            (\A q \in db.questions : q.section_id # s.id) =>
                /\ resp.ok
                /\ \E i \in 1..Len(resp.body.sections) :
                     /\ resp.body.sections[i].base.id = s.id
                     /\ resp.body.sections[i].questions = <<>>

\* C8: a read of an exam returns every question of the exam that has no
\* option, with an empty options list.
C8_EmptyQuestionPresent ==
    (Done("read") /\ DescriptionsOf(db, request.exam_id) # {}
                  /\ request.exam_id \in Ids(db.exams)) =>
        \A q \in QuestionsOf(db, request.exam_id) :
            (\A o \in db.options : o.question_id # q.id) =>
                /\ resp.ok
                /\ \E i \in 1..Len(resp.body.sections) :
                     \E j \in 1..Len(resp.body.sections[i].questions) :
                        /\ resp.body.sections[i].questions[j].base.id = q.id
                        /\ resp.body.sections[i].questions[j].options = <<>>

\* The questions of store d under section S, and the options under them.
QuestionsUnder(d, S) == {q \in d.questions : q.section_id = S}
OptionsUnder(d, S) ==
    {o \in d.options : o.question_id \in Ids(QuestionsUnder(d, S))}

\* The deletion payload lists section S and none of its questions or options.
ListsOnlySection(del, d, S) ==
    /\ S \in SeqToSet(del.section_ids)
    /\ SeqToSet(del.question_ids) \cap Ids(QuestionsUnder(d, S)) = {}
    /\ SeqToSet(del.option_ids) \cap Ids(OptionsUnder(d, S)) = {}

C9_EmptyEditNoOp ==
    (/\ Done("edit")
     /\ request.body.sections = <<>>
     /\ request.body.questions = <<>>
     /\ request.body.options = <<>>
     /\ Delete_is_all_empty(request.body.delete)) =>
        resp.ok /\ log = <<>> /\ db = pre

\* An empty edit ran for an exam that has sections.
C9_Witness ==
    /\ Done("edit") /\ resp.ok
    /\ request.body.sections = <<>>
    /\ request.body.questions = <<>>
    /\ request.body.options = <<>>
    /\ Delete_is_all_empty(request.body.delete)
    /\ SectionsOf(pre, request.body.exam_id) # {}

\* The number of elements of sequence q that satisfy P.
Count(q, P(_)) == Cardinality({i \in 1..Len(q) : P(q[i])})

\* C6: the tree rebuilt from a flat row list holds each section id of the
\* rows exactly once, each question id exactly once in its section and each
\* option id exactly once in its question; the flat result of the other
\* read path holds each section, question and option id exactly once.
C6_NoDuplicates ==
    (Done("regroup") /\ resp.ok) =>
        \A k \in 1..Len(request.rows) :
            LET row == request.rows[k]
                IsS(x) == x.base.id = row.section_id
                IsQ(x) == x.base.id = row.question_id
                IsO(x) == x.base.id = row.option_id
                FlatS(x) == x.id = row.section_id
                FlatQ(x) == x.id = row.question_id
                FlatO(x) == x.id = row.option_id
            IN IF resp.kind = "map_to_section_response"
               THEN /\ Count(resp.body.sections, IsS) = 1
                    /\ \A i \in 1..Len(resp.body.sections) :
                         LET sec == resp.body.sections[i]
                         IN IsS(sec) =>
                              /\ Count(sec.questions, IsQ) = 1
                              /\ \A j \in 1..Len(sec.questions) :
                                   IsQ(sec.questions[j]) =>
                                      Count(sec.questions[j].options, IsO) = 1
               ELSE /\ Count(resp.body.sections, FlatS) = 1
                    /\ Count(resp.body.questions, FlatQ) = 1
                    /\ Count(resp.body.options, FlatO) = 1

\* A row list whose rows of one question are not adjacent was regrouped.
C6_Witness ==
    /\ Done("regroup") /\ resp.ok
    /\ resp.kind = "map_to_section_response"
    /\ Len(request.rows) = 3
    /\ request.rows[1].question_id = request.rows[3].question_id
    /\ request.rows[1].question_id # request.rows[2].question_id
    /\ request.rows[1].section_id = request.rows[2].section_id

\* C10: on each option-generation path, whose language the path supports
\* and whose call of the generator succeeded, a generated text that holds a
\* responses list of a length other than 4 is answered with an error, and
\* one that holds a list of exactly 4 strings is answered with that list.
C10_ExactlyFourValidated ==
    (/\ Done("gen_options") \/ (Done("mcq") /\ request.language = "Urdu")
     /\ request.llm.ok) =>
        \A n \in 0..MaxResponses :
            request.llm.text
                \in Wrappings(JsonObject({"responses"}, Strings(n), <<>>, <<>>)) =>
                IF n = 4
                THEN /\ resp.body.status = 200
                     /\ resp.body.json = [responses |-> Strings(4)]
                ELSE resp.body.status # 200

\* C11: a read of an exam id that has no exam row ends in a NotFound error,
\* HTTP 404 at the routed handler, when no storage fault hits the read: no
\* tree, no internal error, no aborted handler.
C11_MissingExamNotFound ==
    /\ (Done("read") /\ request.exam_id \notin Ids(db.exams)) =>
           ~resp.ok /\ resp.err = "RowNotFound: exam id"
    /\ (/\ Done("fetch_exam")
        /\ ParseI32(request.path).ok
        /\ ParseI32(request.path).value \notin Ids(db.exams)
        /\ resp.fault = "none") =>
           resp.body.status = 404

\* The exam id a finished read names on either read path, NullId when the
\* request is no read, its path segment does not parse or a storage fault
\* hit it.
ReadExamId ==
    IF Done("read") THEN request.exam_id
    ELSE IF Done("fetch_exam") /\ ParseI32(request.path).ok
                               /\ resp.fault = "none"
    THEN ParseI32(request.path).value
    ELSE NullId

\* C12: a read of an exam that has an exam row and a description and no
\* section succeeds and returns the description with an empty sections
\* list; a read of an exam that has an exam row and no description fails
\* with NotFound.
C12_FoundButEmpty ==
    ReadExamId \in Ids(db.exams) =>
        LET e == ReadExamId
            descs == DescriptionsOf(db, e)
        IN /\ (descs # {} /\ SectionsOf(db, e) = {}) =>
                 /\ resp.ok
                 /\ IF resp.kind = "read"
                    THEN /\ resp.body.sections = <<>>
                         /\ \E x \in descs : resp.body.description.id = x.id
                    ELSE /\ resp.body.status = 200
                         /\ resp.body.json.sections = <<>>
                         /\ \E x \in descs :
                              resp.body.json.exam_description.title = x.title
           /\ descs = {} =>
                 /\ ~resp.ok
                 /\ IF resp.kind = "read"
                    THEN resp.err = "RowNotFound: exam description"
                    ELSE resp.body.status = 404

SubmittedQuestions ==
    IF request.kind = "create" THEN RequestQuestions(request.body)
    ELSE request.body.questions
SubmittedOptions ==
    IF request.kind = "create" THEN RequestOptions(request.body)
    ELSE request.body.options

\* A question names a section, or an option a question, that the request
\* does not submit.
MalformedTree ==
    LET SeqIds(rows) == {rows[i].id : i \in 1..Len(rows)}
    IN \/ \E i \in 1..Len(SubmittedQuestions) :
            SubmittedQuestions[i].section_id \notin SeqIds(request.body.sections)
       \/ \E i \in 1..Len(SubmittedOptions) :
            SubmittedOptions[i].question_id \notin SeqIds(SubmittedQuestions)

\* C14: a create of a tree in which an option's question_id is not the id of
\* a question of the tree, or a question's section_id is not the id of a
\* section of the tree, ends in an error and stores nothing, whatever rows
\* the store holds.
C14_MalformedRejected ==
    ((Done("create") \/ Done("create_exam")) /\ MalformedTree) =>
        ~resp.ok /\ db = pre

\* C15: a selective deletion whose three id lists are empty begins no
\* transaction, issues no statement, changes no row and succeeds, at
\* delete_related_entities and at the deletion step of an edit.
C15_EmptyDeletionNoOp ==
    /\ (Done("delete_related_entities") /\ Delete_is_all_empty(request.body)) =>
           resp.ok /\ log = <<>> /\ db = pre
    /\ (Done("edit") /\ Delete_is_all_empty(request.body.delete)) =>
           /\ \A i \in 1..Len(log) :
                log[i] \in {"update_section", "update_question", "update_option"}
           /\ Ids(db.sections) = Ids(pre.sections)
           /\ Ids(db.questions) = Ids(pre.questions)
           /\ Ids(db.options) = Ids(pre.options)

StorageErrorTexts == DbErrs \cup (RouteFailPoints \ {"none"})

\* C17: the body of a response to a storage failure is the same whatever
\* the underlying storage error: the response any other storage error
\* produces equals the one sent, so the body holds none of the error's text.
C17_GenericStorageMessage ==
    (/\ Done("fetch_exam") \/ Done("delete_exam_handler") \/ Done("create_exam")
     /\ resp.fault # "none") =>
        /\ \A t \in StorageErrorTexts :
             error_response(AppError("DbErr", t)) = resp.body
        /\ resp.fault \notin SeqToSet(resp.body.json.message)

\* The inserts of a create, in the order the levels depend on each other.
LevelOrder == <<"exam", "details", "sections", "questions", "options">>

\* C18: a create issues its inserts in the order exam, description,
\* sections, questions, options after one BEGIN, and commits only after the
\* last insert: the inserts in its log are a prefix of that order, and a
\* COMMIT is the last statement of a log that holds all five before it.
C18_InsertOrder ==
    (Done("create") \/ Done("create_exam")) =>
        LET IsLevel(x) == x \in SeqToSet(LevelOrder)
            inserts == SelectSeq(log, IsLevel)
            IsBegin(x) == x = "BEGIN"
        IN /\ log[1] = "BEGIN"
           /\ Len(SelectSeq(log, IsBegin)) = 1
           /\ Len(inserts) <= Len(LevelOrder)
           /\ inserts = SubSeq(LevelOrder, 1, Len(inserts))
           /\ \A i \in 1..Len(log) :
                log[i] = "COMMIT" =>
                    /\ inserts = LevelOrder
                    /\ \A j \in 1..Len(log) : IsLevel(log[j]) => j < i
           /\ resp.ok => log[Len(log)] = "COMMIT"

\* A create committed a tree that put rows in every table.
C18_Witness ==
    /\ Done("create") \/ Done("create_exam")
    /\ resp.ok
    /\ db.sections # pre.sections
    /\ db.questions # pre.questions
    /\ db.options # pre.options

\* The deletion step of a finished edit ran: the snapshot was fetched.
DeletionRan ==
    /\ Done("edit")
    /\ "fetch_ids" \in SeqToSet(log)
    /\ resp.err # "fetch_ids"

\* The deletion sets of the request after the expansion step.  The snapshot
\* holds ids only, which the updates before it leave alone.
Expanded ==
    filter_deletions(
        DeletionData(request.body.delete.section_ids,
                     request.body.delete.question_ids,
                     request.body.delete.option_ids,
                     IdsFinalResponse(fetch_ids_query(pre, request.body.exam_id))))

\* C19: after the expansion, for every (section, question, option) relation
\* of the snapshot whose question is in the question deletion set, requested
\* or added, the option is in the option deletion set.
C19_ExpansionCoversQuestions ==
    DeletionRan =>
        \A t \in Expanded.section_question_option_map :
            (t[2] \in Expanded.question_id_to_delete /\ t[3] # 0) =>
                t[3] \in Expanded.option_id_to_delete

\* C20: the expanded deletion sets are the requested ids together with the
\* ids of the stored questions and options that descend, within the
\* request's exam, from a requested section, and nothing else, also when a
\* requested section has no question or a question of it has no option; a
\* row that the edit deletes is a requested row, such a descendant, or a row
\* under a requested question.
C20_ExpansionOnlyDescendants ==
    DeletionRan =>
        LET del == request.body.delete
            secs == {s \in SectionsOf(pre, request.body.exam_id) :
                        s.id \in SeqToSet(del.section_ids)}
            qs == {q \in pre.questions : q.section_id \in Ids(secs)}
            os == {o \in pre.options : o.question_id \in Ids(qs)}
            asked == {q \in pre.questions : q.id \in SeqToSet(del.question_ids)}
        IN /\ Expanded.section_id_to_delete = SeqToSet(del.section_ids)
           /\ Expanded.question_id_to_delete =
                  SeqToSet(del.question_ids) \cup Ids(qs)
           /\ Expanded.option_id_to_delete =
                  SeqToSet(del.option_ids) \cup Ids(os)
           /\ Ids(pre.questions) \ Ids(db.questions) \subseteq
                  Expanded.question_id_to_delete \cup
                  {q.id : q \in {x \in pre.questions :
                                    x.section_id \in SeqToSet(del.section_ids)}}
           /\ Ids(pre.options) \ Ids(db.options) \subseteq
                  Expanded.option_id_to_delete \cup
                  {o.id : o \in {x \in pre.options :
                        \E q \in pre.questions :
                            /\ x.question_id = q.id
                            /\ \/ q.id \in Expanded.question_id_to_delete
                               \/ q.section_id \in SeqToSet(del.section_ids)}}

\* The three deletes of the selective deletion, by the name each path logs.
DeleteStatements ==
    {"delete_sections", "delete_questions", "delete_options",
     "DELETE sections", "DELETE questions", "DELETE options"}

\* C21: selective deletion is all-or-nothing.  When one of the section,
\* question and option deletes of a request fails, no row the request was to
\* delete is missing afterward: the three tables hold the ids they held
\* before the request; and the deletes that were issued ran in the order
\* sections, questions, options.
C21_DeletionAllOrNothing ==
    ((Done("edit") \/ Done("delete_related_entities"))
        /\ resp.fault \in DeleteStatements) =>
            /\ Ids(db.sections) = Ids(pre.sections)
            /\ Ids(db.questions) = Ids(pre.questions)
            /\ Ids(db.options) = Ids(pre.options)
            /\ LET IsDelete(x) == x \in DeleteStatements
                   issued == SelectSeq(log, IsDelete)
                   Rank(x) == CASE x \in {"delete_sections", "DELETE sections"} -> 1
                                [] x \in {"delete_questions", "DELETE questions"} -> 2
                                [] OTHER -> 3
               IN \A i, j \in 1..Len(issued) : i < j => Rank(issued[i]) < Rank(issued[j])

\* The entries of an edit list name distinct ids of rows the store held when
\* the request arrived.
NamesDistinctRows(list, rows) ==
    /\ \A i, j \in 1..Len(list) : i # j => list[i].id # list[j].id
    /\ \A i \in 1..Len(list) : list[i].id \in Ids(rows)

\* C22: a batched update applies each entry to its own row.  After an edit
\* whose statements were hit by no failure of the store and whose lists, of
\* any length, name distinct ids of existing rows, every listed section that
\* is still stored holds the title of its own entry, every listed question
\* the text, description and marks of its own entry, and every listed option
\* the text and is_correct of its own entry.
C22_BatchedUpdate ==
    LET b == request.body
    IN (/\ Done("edit")
        /\ resp.fault = "none"
        /\ NamesDistinctRows(b.sections, pre.sections)
        /\ NamesDistinctRows(b.questions, pre.questions)
        /\ NamesDistinctRows(b.options, pre.options)) =>
           /\ \A i \in 1..Len(b.sections) : \A r \in db.sections :
                  r.id = b.sections[i].id => r.title = b.sections[i].title
           /\ \A i \in 1..Len(b.questions) : \A r \in db.questions :
                  r.id = b.questions[i].id =>
                      /\ r.text = b.questions[i].text
                      /\ r.description = b.questions[i].description
                      /\ r.marks = b.questions[i].marks
           /\ \A i \in 1..Len(b.options) : \A r \in db.options :
                  r.id = b.options[i].id =>
                      /\ r.text = b.options[i].text
                      /\ r.is_correct = b.options[i].is_correct

\* The place of a statement in the order edit_exam issues its statements.
EditRank(x) ==
    CASE x = "update_section" -> 1
      [] x = "update_question" -> 2
      [] x = "update_option" -> 3
      [] x = "fetch_ids" -> 4
      [] x = "delete_sections" -> 5
      [] x = "delete_questions" -> 6
      [] x = "delete_options" -> 7

\* C23: within one edit request the statements are issued in the order
\* section update, question update, option update and only then the
\* snapshot query and the deletes, each statement having ended before the
\* next is issued; and after a successful edit no row listed in the deletion
\* payload is stored, edited in the same request or not.
C23_UpdatesBeforeDeletes ==
    Done("edit") =>
        /\ \A i, j \in 1..Len(log) : i < j => EditRank(log[i]) < EditRank(log[j])
        /\ resp.ok =>
               LET del == request.body.delete
               IN /\ SeqToSet(del.section_ids) \cap Ids(db.sections) = {}
                  /\ SeqToSet(del.question_ids) \cap Ids(db.questions) = {}
                  /\ SeqToSet(del.option_ids) \cap Ids(db.options) = {}

\* A successful edit that updated section 1, stored when the request
\* arrived, and deleted it.
C23_Witness ==
    /\ Done("edit")
    /\ resp.ok
    /\ 1 \in Ids(pre.sections)
    /\ request.body.sections = <<SectionEdit(1)>>
    /\ 1 \in SeqToSet(request.body.delete.section_ids)
    /\ "update_section" \in SeqToSet(log)
    /\ "delete_sections" \in SeqToSet(log)
    /\ 1 \notin Ids(db.sections)

\* The statements of the deletion step of an edit.
DeletionStatements ==
    {"fetch_ids", "delete_sections", "delete_questions", "delete_options"}

\* C24: the four edit steps are independent.  A step whose list is empty
\* issues no statement (the deletion step when all three id lists are
\* empty).  When a step fails the request returns that step's error: the
\* failed statement is the last one issued, the rows a later step would
\* have written are as they were, and what the earlier steps wrote is kept:
\* the section an earlier section update named holds its new title, the
\* question an earlier question update named holds its new fields.
C24_StepsIndependent ==
    Done("edit") =>
        LET b == request.body
            issued == SeqToSet(log)
            Ran(step) == step \in issued /\ resp.err # step
        IN /\ b.sections = <<>> => "update_section" \notin issued
           /\ b.questions = <<>> => "update_question" \notin issued
           /\ b.options = <<>> => "update_option" \notin issued
           /\ Delete_is_all_empty(b.delete) => issued \cap DeletionStatements = {}
           /\ ~resp.ok =>
                /\ log # <<>> /\ log[Len(log)] = resp.err
                /\ resp.err = "update_section" => db = pre
                /\ resp.err = "update_question" =>
                       db.questions = pre.questions /\ db.options = pre.options
                /\ resp.err = "update_option" => db.options = pre.options
                /\ resp.err \in {"update_section", "update_question",
                                 "update_option", "fetch_ids"} =>
                       /\ Ids(db.sections) = Ids(pre.sections)
                       /\ Ids(db.questions) = Ids(pre.questions)
                       /\ Ids(db.options) = Ids(pre.options)
                /\ Ran("update_section") =>
                       \A r \in db.sections :
                           r.id = b.sections[1].id => r.title = b.sections[1].title
                /\ Ran("update_question") =>
                       \A r \in db.questions :
                           r.id = b.questions[1].id => r.text = b.questions[1].text

\* An edit that failed at its option update after its section update and
\* its question update had rewritten stored rows.
C24_Witness ==
    /\ Done("edit")
    /\ ~resp.ok
    /\ resp.err = "update_option"
    /\ log = <<"update_section", "update_question", "update_option">>
    /\ \E r \in db.sections, p \in pre.sections :
           r.id = 1 /\ p.id = 1 /\ r.title = EditTitle(1) /\ p.title # r.title
    /\ \E r \in db.questions, p \in pre.questions :
           r.id = 1 /\ p.id = 1 /\ r.text = EditTitle(1) /\ p.text # r.text
    /\ db.options = pre.options
    /\ db.options # {}

\* Both clients have a finished, successful edit, and from the moment the
\* first of the two was received no other request has run: the first
\* arrived while the other client was idle and the second is the very next
\* request received.
TwoEditsRan ==
    /\ \A c \in Clients :
           /\ request[c].kind = "edit"
           /\ resp[c] # NoResponse
           /\ resp[c].ok
    /\ \E a, b \in Clients :
           /\ pre.local[a].alone
           /\ pre.local[b].ticket = pre.local[a].ticket + 1

\* Row r holds every field value of the entry of an edit list.
HoldsSection(r, entry) == r.title = entry.title
HoldsQuestion(r, entry) ==
    /\ r.text = entry.text
    /\ r.description = entry.description
    /\ r.marks = entry.marks
HoldsOption(r, entry) ==
    /\ r.text = entry.text
    /\ r.is_correct = entry.is_correct

\* The entries of the two requests' lists of one level that name row id i.
EntriesFor(level, i) ==
    {e \in UNION {SeqToSet(request[c].body[level]) : c \in Clients} : e.id = i}

\* C25: last writer wins.  After two edits that ran concurrently, in every
\* interleaving of their statements, each stored section, question and
\* option that an edit named holds every field value of one entry that
\* names it: the values of exactly one of the two edits when both named it,
\* never fields of both, and the values of the only edit that named it
\* otherwise.
C25_LastWriterWins ==
    TwoEditsRan =>
        /\ \A r \in db.sections :
               EntriesFor("sections", r.id) # {} =>
                   \E e \in EntriesFor("sections", r.id) : HoldsSection(r, e)
        /\ \A r \in db.questions :
               EntriesFor("questions", r.id) # {} =>
                   \E e \in EntriesFor("questions", r.id) : HoldsQuestion(r, e)
        /\ \A r \in db.options :
               EntriesFor("options", r.id) # {} =>
                   \E e \in EntriesFor("options", r.id) : HoldsOption(r, e)

\* Two edits whose statements interleaved: the section holds the title of
\* the one, the question the fields of the other, and the option, which the
\* first alone named, its values.
C25_Witness ==
    /\ TwoEditsRan
    /\ request[1].body.options # <<>>
    /\ request[2].body.options = <<>>
    /\ request[2].body.sections # <<>>
    /\ \E r \in db.sections :
           r.id = 1 /\ HoldsSection(r, request[2].body.sections[1])
                    /\ ~HoldsSection(r, request[1].body.sections[1])
    /\ \E r \in db.questions :
           r.id = 1 /\ HoldsQuestion(r, request[1].body.questions[1])
                    /\ ~HoldsQuestion(r, request[2].body.questions[1])
    /\ \E r \in db.options :
           r.id = 1 /\ HoldsOption(r, request[1].body.options[1])

\* C29: a read is snapshot-consistent.  Under every interleaving with the
\* statements of concurrent create, delete_exam and edit requests, the tree
\* a successful read returns is the tree a read of the same exam returns
\* from one of the stores that existed while the read ran.
C29_ReadIsSnapshot ==
    \A c \in Clients :
        (request[c].kind = "read" /\ resp[c] # NoResponse /\ resp[c].ok) =>
            \E d \in pre.seen[c] :
                LET at == read_exam_data(d, request[c].exam_id)
                IN at.ok /\ at.body = resp[c].body

\* A call of the text-generation API has returned.
CallDone == Done("send_prompt_to_llm") \/ Done("handle_llm_response")

\* The body holds candidates[0].content.parts[0].text.
HasTextPath(body) ==
    /\ body.valid
    /\ body.candidates # None
    /\ body.candidates[1] # <<>>
    /\ body.candidates[1][1].content # None
    /\ body.candidates[1][1].content[1].parts # None
    /\ body.candidates[1][1].content[1].parts[1] # <<>>
    /\ body.candidates[1][1].content[1].parts[1][1].text # None

TextAtPath(body) == body.candidates[1][1].content[1].parts[1][1].text[1]

\* Every content of the body has its parts and every part its text.
EveryPartHasText(body) ==
    body.candidates # None =>
        \A i \in 1..Len(body.candidates[1]) :
            LET c == body.candidates[1][i].content
            IN c # None =>
                   /\ c[1].parts # None
                   /\ \A j \in 1..Len(c[1].parts[1]) : c[1].parts[1][j].text # None

\* C26 as stated: a call that got an answer fails exactly when the status
\* is not 2xx or the body lacks candidates[0].content.parts[0].text, and
\* returns that text otherwise.
C26_Original ==
    (CallDone /\ request.reply.sent) =>
        LET r == request.reply
        IN /\ resp.ok <=> (is_success(r.status) /\ HasTextPath(r.body))
           /\ resp.ok => resp.body.text = TextAtPath(r.body)

\* C26 (as amended): an LLM call fails when the request could not be sent,
\* when the HTTP status is not 2xx, when the body is not JSON or holds,
\* anywhere, a content without parts or a part without text, and when the
\* body lacks candidates[0].content.parts[0].text; otherwise it returns
\* exactly that text.  It never returns success with an empty or default
\* text in place of a missing one.
C26_FailsOrReturnsText ==
    CallDone =>
        LET r == request.reply
            fails == \/ ~r.sent
                     \/ ~is_success(r.status)
                     \/ ~EveryPartHasText(r.body)
                     \/ ~HasTextPath(r.body)
        IN /\ resp.ok <=> ~fails
           /\ resp.ok => resp.body.text = TextAtPath(r.body)

\* A call answered 2xx whose first candidate has two parts: the text of the
\* first part came back.
C26_Witness ==
    /\ CallDone
    /\ resp.ok
    /\ request.reply.status = 204
    /\ Len(request.reply.body.candidates[1]) = 2
    /\ request.reply.body.candidates[1][2].content = None
    /\ Len(request.reply.body.candidates[1][1].content[1].parts[1]) = 2
    /\ request.reply.body.candidates[1][1].content[1].parts[1][2].text = Some("x")
    /\ TextAtPath(request.reply.body) = "y"
    /\ resp.body.text = "y"

\* The ids the entries of an edit list name.
ListedIds(list) == {list[i].id : i \in 1..Len(list)}

\* C27: the frame of an edit.  After an edit, failed or not, the exams and
\* the descriptions are as they were; every stored section, question and
\* option was stored before under the same id with the same parent
\* reference; a row whose id is in none of the request's edit lists has
\* every field as before; and a listed row differs from before at most in
\* the title (section), the text, description and marks (question), the
\* text and is_correct (option).
C27_EditFrame ==
    Done("edit") =>
        LET b == request.body
        IN /\ db.exams = pre.exams
           /\ db.descriptions = pre.descriptions
           /\ \A r \in db.sections : \E p \in pre.sections :
                  /\ p.id = r.id
                  /\ IF r.id \in ListedIds(b.sections)
                     THEN [r EXCEPT !.title = p.title] = p
                     ELSE r = p
           /\ \A r \in db.questions : \E p \in pre.questions :
                  /\ p.id = r.id
                  /\ IF r.id \in ListedIds(b.questions)
                     THEN [r EXCEPT !.text = p.text,
                                    !.description = p.description,
                                    !.marks = p.marks] = p
                     ELSE r = p
           /\ \A r \in db.options : \E p \in pre.options :
                  /\ p.id = r.id
                  /\ IF r.id \in ListedIds(b.options)
                     THEN [r EXCEPT !.text = p.text,
                                    !.is_correct = p.is_correct] = p
                     ELSE r = p

\* An edit that rewrote section 1 and question 1 while section 2, which it
\* does not list, was stored.
C27_Witness ==
    /\ Done("edit")
    /\ resp.ok
    /\ ListedIds(request.body.sections) = {1}
    /\ ListedIds(request.body.questions) = {1}
    /\ {1, 2} \subseteq Ids(db.sections)
    /\ \E r \in db.sections, p \in pre.sections :
           r.id = 1 /\ p.id = 1 /\ r.title # p.title
    /\ \E r \in db.questions, p \in pre.questions :
           r.id = 1 /\ p.id = 1 /\ r.marks # p.marks

\* C28: the deletion step of an edit that names exam E removes only rows of
\* exam E.  Whatever ids the deletion payload lists, after the edit every
\* other exam has the sections, questions and options it had before.
C28_DeletionStaysInExam ==
    Done("edit") =>
        \A e \in Ids(pre.exams) \ {request.body.exam_id} :
            /\ Ids(SectionsOf(db, e)) = Ids(SectionsOf(pre, e))
            /\ Ids(QuestionsOf(db, e)) = Ids(QuestionsOf(pre, e))
            /\ Ids(OptionsOf(db, e)) = Ids(OptionsOf(pre, e))

\* The questions a fetch of the exam id a create returned gives, each with
\* the section it is grouped under.
FetchedAfterCreate ==
    LET map == fetch_questions(db, resp.body.json.exam_id)
    IN [sections |-> map,
        questions |-> Flatten([i \in 1..Len(map) |->
                        [j \in 1..Len(map[i].value) |->
                            [under |-> map[i].key, q |-> map[i].value[j]]]])]

\* C30: in the key-value backend, after a successful create of an exam with
\* n questions, a fetch of the returned exam id returns exactly those n
\* questions: n in all, each submitted question once, under its own
\* section, with its options and marks, and no question that was not
\* submitted with this exam.
C30_FetchReturnsCreated ==
    (Done("kv_create") /\ resp.ok) =>
        LET submitted == request.body.questions
            got == FetchedAfterCreate.questions
            Same(g, s) == /\ g.q.question = s.question
                          /\ g.q.section = s.section
                          /\ g.under = s.section
                          /\ g.q.options = s.options
                          /\ g.q.marks = s.marks
        IN /\ Len(got) = Len(submitted)
           /\ \A i \in 1..Len(submitted) :
                  Cardinality({j \in 1..Len(got) : Same(got[j], submitted[i])}) = 1
           /\ \A j \in 1..Len(got) :
                  \E i \in 1..Len(submitted) : Same(got[j], submitted[i])

====
